---- MODULE Spec2Model ----
(***************************************************************************)
(* Warm-start state cache of switch_model/utilities/gurobi_aug.py:         *)
(* PicklableData / VBasis / CBasis (the name-keyed stores), WarmStartData  *)
(* (the pickled bundle) and GurobiAugmented (the coordinator around the    *)
(* blocking solve).                                                        *)
(*                                                                         *)
(* Three specifications of it share the module:                            *)
(*   Spec       a solver object used for a sequence of solve() calls, each *)
(*              on a freshly built session, with one warm-start file.      *)
(*   FileSpec   the same, started with a file the program did not write.   *)
(*   StoreSpec  one store object driven through its public methods.        *)
(*                                                                         *)
(* Graphing of switch_model/tools/graph/main.py: the registry of graphing  *)
(* functions, GraphTools.run_graph_func and the FigureHandler.             *)
(*   GraphSpec  registrations and runs of registered graphing functions.   *)
(***************************************************************************)
EXTENDS Integers, Sequences, FiniteSets, TLC

VARIABLES
    phase,      \* position of the solver object in solve()
    cfg,        \* _read_warm_start, _write_warm_start, _save_c_v_basis
    sess,       \* the solver session: names, IsMIP and the Gurobi attributes
    file,       \* the warm-start pickle file
    captured,   \* history: the raw attribute values read by the last capture that was pickled
    log,        \* history: lookups, setAttr calls and warnings of the current solve()
    errCount,   \* error_count of the last _warm_start
    err,        \* the exception that ended the current solve(), "none" if none
    st,         \* StoreSpec: the store object
    stHist,     \* StoreSpec history: the (name, raw value) pairs passed to save_component
    stLast,     \* StoreSpec history: the last method call and its outcome
    stLate,     \* StoreSpec history: save_component was called after get_component
    registered_graphs,  \* GraphSpec: the registry, in insertion order
    CATCH_EXCEPTIONS,   \* GraphSpec: the module flag of catch_exceptions
    tools,      \* GraphSpec: the GraphTools object with its FigureHandler, and history
    cli         \* FolderSpec, SamplingSpec, PolicySpec: a run of a program of the package

vars == <<phase, cfg, sess, file, captured, log, errCount, err, st, stHist, stLast, stLate,
          registered_graphs, CATCH_EXCEPTIONS, tools, cli>>
coordVars == <<phase, cfg, sess, file, captured, log, errCount, err>>
storeVars == <<st, stHist, stLast, stLate>>
graphVars == <<registered_graphs, CATCH_EXCEPTIONS, tools>>
besideCoord == <<storeVars, graphVars, cli>>
besideStore == <<coordVars, graphVars, cli>>
besideGraph == <<coordVars, storeVars, cli>>
besideCli == <<coordVars, storeVars, graphVars>>

-----------------------------------------------------------------------------
(* Bounds of the model *)

MaxVars == 2        \* variables in the name pool

AllVarNames == <<"x1", "x2", "x3", "x4">>
AllConNames == <<"c1">>

\* Names as the sequence the session enumerates them in (pool order).
RECURSIVE PickNames(_, _, _)
PickNames(all, idx, i) ==
    IF i > Len(all) THEN <<>>
    ELSE (IF i \in idx THEN <<all[i]>> ELSE <<>>) \o PickNames(all, idx, i + 1)

VarShapes == {PickNames(AllVarNames, s, 1) : s \in SUBSET (1..MaxVars)}
\* The constraint store goes through the same loops as the variable store; one
\* constraint name gives it a hit, a miss and an unused entry.
ConShapes == {PickNames(AllConNames, s, 1) : s \in SUBSET (DOMAIN AllConNames)}

Range(s) == {s[i] : i \in DOMAIN s}

IndexOf(all, name) == CHOOSE i \in DOMAIN all : all[i] = name

\* What the external solver may leave in a variable after optimize(): its basis
\* status (VBasis) and primal value (X).  -4 is no Gurobi basis status.
VarPoints == << [b |-> 0,  x |-> 7],
                [b |-> -1, x |-> 0],
                [b |-> -2, x |-> 5],
                [b |-> -3, x |-> -3],
                [b |-> -4, x |-> 9] >>

\* The same for a constraint: CBasis and the dual value Pi.  -2 is no Gurobi
\* constraint basis status.
ConPoints == << [b |-> 0,  pi |-> 4],
                [b |-> -1, pi |-> 0],
                [b |-> -2, pi |-> -6] >>

VarOutcome(k, name) == VarPoints[((k + IndexOf(AllVarNames, name)) % Len(VarPoints)) + 1]
ConOutcome(k, name) == ConPoints[((k + IndexOf(AllConNames, name)) % Len(ConPoints)) + 1]

\* The solver outcomes enumerated: outcome k gives every name a point of its
\* list, shifted by k, so that every name takes every point.
Outcomes == 0..(Len(VarPoints) - 1)

VBasisCodes == {0, -1, -2, -3}
CBasisCodes == {0, -1}

-----------------------------------------------------------------------------
(* PicklableData, VBasis, CBasis *)

EmptyMap == [x \in {} |-> 0]

\* Absent attribute of an unpickled object (__setstate__ restores only
\* _names, _vals and _dict).
NoAttr == -1

\* PicklableData.__init__: n empty names, n uninitialised values (np.empty).
NewStore(cls, dtype, n, fill) ==
    [cls |-> cls, dtype |-> dtype,
     names |-> [i \in 1..n |-> ""],
     vals |-> [i \in 1..n |-> fill],
     built |-> FALSE, dict |-> EmptyMap,
     next_index |-> 0, n |-> n]

\* What np.empty may hold for a dtype.
Garbage(dtype) == IF dtype = "bool" THEN {FALSE, TRUE} ELSE {0, 3}

\* Assignment of a Python number into a numpy array element of the dtype.
\* An integer outside 0..255 into uint8 either wraps or raises OverflowError,
\* depending on the numpy release.
NpCast(dtype, val) ==
    IF dtype = "bool" THEN {[ok |-> TRUE, v |-> (val # 0)]}
    ELSE IF dtype = "uint8" THEN
        IF val >= 0 /\ val <= 255 THEN {[ok |-> TRUE, v |-> val]}
        ELSE {[ok |-> TRUE, v |-> val % 256], [ok |-> FALSE, v |-> 0]}
    ELSE {[ok |-> TRUE, v |-> val]}

\* PicklableData.save_component: the outcomes, each the exception raised
\* ("none" if none) and the store it leaves.
BaseSaveComponent(s, name, val) ==
    IF s.next_index = NoAttr THEN {[err |-> "AttributeError", store |-> s]}
    ELSE IF s.next_index >= Len(s.names) THEN {[err |-> "IndexError", store |-> s]}
    ELSE LET named == [s EXCEPT !.names[s.next_index + 1] = name]
         IN  {IF c.ok
                THEN [err |-> "none",
                      store |-> [named EXCEPT !.vals[s.next_index + 1] = c.v,
                                              !.next_index = s.next_index + 1]]
                ELSE [err |-> "OverflowError", store |-> named]
              : c \in NpCast(s.dtype, val)}

\* Mutant of VBasisEncode: the sign flip is forgotten.
VBasisEncodeNoFlip(val) == val

\* VBasis.save_component multiplies by -1 first; CBasis inherits the base method.
VBasisEncode(val) == val * (-1)

SaveComponent(s, name, val) ==
    IF s.cls = "VBasis" THEN BaseSaveComponent(s, name, VBasisEncode(val))
    ELSE BaseSaveComponent(s, name, val)

\* PicklableData._get_dict: {n: v for n, v in zip(_names, _vals)}; zip stops at
\* the shorter sequence and a later pair replaces an earlier one of the same name.
MinLen(a, b) == IF Len(a) <= Len(b) THEN Len(a) ELSE Len(b)

GetDict(s) ==
    LET m == MinLen(s.names, s.vals)
        keys == {s.names[i] : i \in 1..m}
        Last(k) == CHOOSE i \in 1..m : s.names[i] = k /\ \A j \in 1..m : s.names[j] = k => j <= i
    IN  [k \in keys |-> s.vals[Last(k)]]

\* Mutant of Freeze: the index is rebuilt on every lookup.
FreezeEveryTime(s) == [s EXCEPT !.built = TRUE, !.dict = GetDict(s)]

\* PicklableData.get_component: builds _dict on the first call, then indexes it.
Freeze(s) == IF s.built THEN s ELSE [s EXCEPT !.built = TRUE, !.dict = GetDict(s)]

\* Mutant of VBasisDecode: the sign flip is forgotten.
VBasisDecodeNoFlip(v) == v

\* Mutant of CBasisDecode: the two codes are swapped.
CBasisDecodeSwapped(v) == IF v THEN 0 ELSE -1

VBasisDecode(v) == v * (-1)
CBasisDecode(v) == IF v THEN -1 ELSE 0

Decode(cls, v) ==
    IF cls = "VBasis" THEN VBasisDecode(v)
    ELSE IF cls = "CBasis" THEN CBasisDecode(v)
    ELSE v

\* Mutant of GetComponent: the entry is popped from the index when looked up.
GetComponentPop(s, name) ==
    LET f == Freeze(s)
    IN  IF s.cls = "NoneType"
          THEN [err |-> "AttributeError", val |-> 0, store |-> s]
        ELSE IF name \in DOMAIN f.dict
          THEN [err |-> "none", val |-> Decode(s.cls, f.dict[name]),
                store |-> [f EXCEPT !.dict = [k \in DOMAIN f.dict \ {name} |-> f.dict[k]]]]
          ELSE [err |-> "KeyError", val |-> 0, store |-> f]

GetComponent(s, name) ==
    LET f == Freeze(s)
    IN  IF s.cls = "NoneType"
          THEN [err |-> "AttributeError", val |-> 0, store |-> s]
        ELSE IF name \in DOMAIN f.dict
          THEN [err |-> "none", val |-> Decode(s.cls, f.dict[name]), store |-> f]
          ELSE [err |-> "KeyError", val |-> 0, store |-> f]

\* numpy's conversion of the list of names to a fixed-width unicode array keeps
\* every string that ends in no NUL character; component names hold none.
NpStr(name) == name

\* __getstate__ / __setstate__: only (np.array(_names), _vals) cross the pickle;
\* the class is kept, _dict is None again, next_index and n are not restored.
GetState(s) == [cls |-> s.cls, dtype |-> s.dtype,
                names |-> [i \in DOMAIN s.names |-> NpStr(s.names[i])],
                vals |-> s.vals]

\* __getstate__ starts with "if self.next_index != self.n": it raises
\* AttributeError on a store that has neither, and warns when they differ.
CanGetState(s) == s.next_index # NoAttr

PickleWarns(s) == s.next_index # s.n

SetState(p) == [cls |-> p.cls, dtype |-> p.dtype, names |-> p.names, vals |-> p.vals,
                built |-> FALSE, dict |-> EmptyMap, next_index |-> NoAttr, n |-> NoAttr]

-----------------------------------------------------------------------------
(* WarmStartData and the file *)

EmptyPickle == [cls |-> "PicklableData", dtype |-> "float", names |-> <<>>, vals |-> <<>>]

\* The file at the path: whether it exists, whether its bytes are a pickle
\* that pickle.load can rebuild, and if so the object pickled.
NoFile == [exists |-> FALSE, corrupt |-> FALSE,
           var_data |-> EmptyPickle, const_data |-> EmptyPickle,
           use_c_v_basis |-> FALSE]

\* A file pickle.load cannot read: truncated, or no pickle at all.
CorruptFile == [NoFile EXCEPT !.exists = TRUE, !.corrupt = TRUE]

\* Pickles of a WarmStartData that this program did not write: __setstate__
\* takes whatever pair of arrays the pickle holds, so the names and the values
\* of a store need not be equally many.
MismatchedFiles ==
    { [exists |-> TRUE, corrupt |-> FALSE, use_c_v_basis |-> FALSE,
       var_data |-> [cls |-> "PicklableData", dtype |-> "float",
                     names |-> <<"x1", "x2">>, vals |-> <<5>>],
       const_data |-> [cls |-> "PicklableData", dtype |-> "float",
                       names |-> <<>>, vals |-> <<4>>]],
      [exists |-> TRUE, corrupt |-> FALSE, use_c_v_basis |-> TRUE,
       var_data |-> [cls |-> "VBasis", dtype |-> "uint8",
                     names |-> <<"x1">>, vals |-> <<1, 2>>],
       const_data |-> [cls |-> "CBasis", dtype |-> "bool",
                       names |-> <<"c1">>, vals |-> <<>>]] }

\* An attribute of the pickled WarmStartData that is no store at all.
NoneStore == [cls |-> "NoneType", dtype |-> "none", names |-> <<>>, vals |-> <<>>]

\* Pickles of a WarmStartData one of whose stores cannot be used.
UnusableFiles ==
    { [exists |-> TRUE, corrupt |-> FALSE, use_c_v_basis |-> FALSE,
       var_data |-> [cls |-> "PicklableData", dtype |-> "float",
                     names |-> <<"x1">>, vals |-> <<5>>],
       const_data |-> NoneStore] }

\* What may lie at the path before the first solve().
ForeignFiles == {NoFile, CorruptFile} \cup MismatchedFiles \cup UnusableFiles

\* pickle.dump(WarmStartData(var_data, const_data, save_c_v_basis), f)
Dump(var_data, const_data, use) ==
    [exists |-> TRUE, corrupt |-> FALSE,
     var_data |-> GetState(var_data), const_data |-> GetState(const_data),
     use_c_v_basis |-> use]

\* pickle.load(f)
Load(f) == [var_data |-> SetState(f.var_data), const_data |-> SetState(f.const_data),
            use_c_v_basis |-> f.use_c_v_basis]

NoCapture == [done |-> FALSE, use |-> FALSE, vars |-> <<>>, cons |-> <<>>]

-----------------------------------------------------------------------------
(* The solver session (consumed capability): names, IsMIP, Gurobi attributes *)

\* An attribute holds a value only for the names it was set or computed for.
NewSession(vs, cs, mip) ==
    [vars |-> vs, cons |-> cs, mip |-> mip,
     VBasis |-> EmptyMap, CBasis |-> EmptyMap,
     PStart |-> EmptyMap, DStart |-> EmptyMap,
     X |-> EmptyMap, Pi |-> EmptyMap,
     Start |-> FALSE]

NoSession == NewSession(<<>>, <<>>, FALSE)

\* gurobi_var.setAttr(attr, val) on one attribute map
SetAttr(attr, name, val) ==
    [n \in DOMAIN attr \cup {name} |-> IF n = name THEN val ELSE attr[n]]

None == "None"
Path == "warm_start.pickle"

\* The keyword arguments a caller may pass to solve() for the three options:
\* the two paths and the flag, each given or left out; "tee" stands for the
\* keywords of the base solver that come with them.
KwChoices ==
    { [paths |-> p, flags |-> f, others |-> {"tee"}] :
        p \in UNION {[d -> {Path}] : d \in SUBSET {"write_warm_start", "read_warm_start"}},
        f \in UNION {[d -> BOOLEAN] : d \in SUBSET {"save_c_v_basis"}} }

\* kwds.pop(key, default): the value
Pop(kwds, key, default) == IF key \in DOMAIN kwds THEN kwds[key] ELSE default

\* The keys of the keyword arguments.
Keys(kwds) == DOMAIN kwds.paths \cup DOMAIN kwds.flags \cup kwds.others

\* kwds.pop(key, default): the keys left in kwds
AfterPop(keys, key) == keys \ {key}

\* Mutant of Configure: the default of save_c_v_basis is true.
ConfigureBasisDefault(kwds) ==
    [write |-> Pop(kwds.paths, "write_warm_start", None),
     read |-> Pop(kwds.paths, "read_warm_start", None),
     save |-> Pop(kwds.flags, "save_c_v_basis", TRUE),
     given |-> Keys(kwds),
     rest |-> AfterPop(AfterPop(AfterPop(Keys(kwds), "write_warm_start"),
                                "read_warm_start"), "save_c_v_basis")]

\* Mutant of Configure: an option left out keeps the value of the solve before.
ConfigureSticky(kwds) ==
    [write |-> Pop(kwds.paths, "write_warm_start", cfg.write),
     read |-> Pop(kwds.paths, "read_warm_start", cfg.read),
     save |-> Pop(kwds.flags, "save_c_v_basis", cfg.save),
     given |-> Keys(kwds),
     rest |-> AfterPop(AfterPop(AfterPop(Keys(kwds), "write_warm_start"),
                                "read_warm_start"), "save_c_v_basis")]

\* The three pops of _presolve: the options kept in the solver object, with
\* the keys the caller passed and the keys that go on to super()._presolve.
Configure(kwds) ==
    [write |-> Pop(kwds.paths, "write_warm_start", None),
     read |-> Pop(kwds.paths, "read_warm_start", None),
     save |-> Pop(kwds.flags, "save_c_v_basis", FALSE),
     given |-> Keys(kwds),
     rest |-> AfterPop(AfterPop(AfterPop(Keys(kwds), "write_warm_start"),
                                "read_warm_start"), "save_c_v_basis")]

\* GurobiAugmented.CBASIS_DEFAULT / VBASIS_DEFAULT
CBASIS_DEFAULT == 0
VBASIS_DEFAULT == 0

NoCfg == [read |-> None, write |-> None, save |-> FALSE, given |-> {}, rest |-> {}]

-----------------------------------------------------------------------------
(* GurobiAugmented._warm_start *)

Event(op, what, name, val) == [op |-> op, what |-> what, name |-> name, val |-> val]

\* Mutant of RestoreLoop: a miss is counted but the default is not applied.
RECURSIVE RestoreLoopSkipMiss(_, _, _, _, _, _)
RestoreLoopSkipMiss(names, i, what, attrName, default, acc) ==
    IF i > Len(names) \/ acc.raised # "none" THEN acc
    ELSE LET name == names[i]
             r == GetComponent(acc.store, name)
             miss == r.err = "KeyError"
         IN  RestoreLoopSkipMiss(names, i + 1, what, attrName, default,
                 [store |-> r.store, raised |-> "none",
                  attr |-> IF miss THEN acc.attr ELSE SetAttr(acc.attr, name, r.val),
                  error |-> IF miss THEN name ELSE acc.error,
                  error_count |-> IF miss THEN acc.error_count + 1 ELSE acc.error_count,
                  log |-> acc.log \o << Event(IF miss THEN "miss" ELSE "hit", what, name, r.val) >>])

\* One pass of "for component in map: try get_component except KeyError:
\* default, count; setAttr" over the names from position i on.  Any other
\* exception of get_component is not caught and ends the pass.
RECURSIVE RestoreLoop(_, _, _, _, _, _)
RestoreLoop(names, i, what, attrName, default, acc) ==
    IF i > Len(names) \/ acc.raised # "none" THEN acc
    ELSE LET name == names[i]
             r == GetComponent(acc.store, name)
             miss == r.err = "KeyError"
             val == IF miss THEN default ELSE r.val
         IN  IF r.err \notin {"none", "KeyError"}
               THEN [acc EXCEPT !.raised = r.err]
             ELSE RestoreLoop(names, i + 1, what, attrName, default,
                 [store |-> r.store, raised |-> "none",
                  attr |-> SetAttr(acc.attr, name, val),
                  error |-> IF miss THEN name ELSE acc.error,
                  error_count |-> IF miss THEN acc.error_count + 1 ELSE acc.error_count,
                  log |-> acc.log \o << Event(IF miss THEN "miss" ELSE "hit", what, name, val),
                                        Event("set", attrName, name, val) >>])

\* Mutant of LoopItems: the loop runs over the names of the loaded store.
LoopItemsOfStore(sessionNames, storeNames) == storeNames

\* The components a loop of _warm_start visits: the session's own map, whatever
\* the loaded store holds.
LoopItems(sessionNames, storeNames) == sessionNames

\* Mutant of WarnIfError: one warning per restore, misses or not.
WarnAlways(acc) == Append(acc.log, Event("warn", "", acc.error, acc.error_count - 1))

\* "if error is not None: warnings.warn(f'{error} and {error_count - 1} others ...')"
WarnIfError(acc) ==
    IF acc.error # None
      THEN Append(acc.log, Event("warn", "", acc.error, acc.error_count - 1))
      ELSE acc.log

\* Mutant of RestoreKind: the flag of the current solve decides.
RestoreKindOfSolve(data) == cfg.save

\* "if warm_start_data.use_c_v_basis": the flag of the loaded object decides
\* which attributes are set.
RestoreKind(data) == data.use_c_v_basis

\* The end of _warm_start: what the two loops v and c leave.
WarmStartResult(s, data, var_attr, const_attr, v, c) ==
    [sess |-> [s EXCEPT ![var_attr] = v.attr, ![const_attr] = c.attr],
     error_count |-> c.error_count,
     log |-> IF c.raised = "none" THEN WarnIfError(c) ELSE c.log,
     err |-> c.raised,
     data |-> [var_data |-> v.store, const_data |-> c.store,
               use_c_v_basis |-> data.use_c_v_basis]]

\* The loop over the constraints, which goes on from where the loop over the
\* variables, v, ended.
RestoreConstraints(s, data, var_attr, const_attr, const_default, v) ==
    WarmStartResult(s, data, var_attr, const_attr, v,
        RestoreLoop(LoopItems(s.cons, data.const_data.names), 1,
            "const_data", const_attr, const_default,
            [store |-> data.const_data, raised |-> v.raised, attr |-> s[const_attr],
             error |-> v.error, error_count |-> v.error_count, log |-> v.log]))

\* The body of _warm_start after pickle.load, on a continuous program: the
\* session it leaves, the warning count and the record of its calls, the
\* exception that ended it ("none" if none) and the loaded object as it is then.
ApplyWarmStart(s, data) ==
    LET basis == RestoreKind(data)
        var_attr == IF basis THEN "VBasis" ELSE "PStart"
        const_attr == IF basis THEN "CBasis" ELSE "DStart"
        var_default == IF basis THEN VBASIS_DEFAULT ELSE 0
        const_default == IF basis THEN CBASIS_DEFAULT ELSE 0
    IN  RestoreConstraints(s, data, var_attr, const_attr, const_default,
            RestoreLoop(LoopItems(s.vars, data.var_data.names), 1,
                "var_data", var_attr, var_default,
                [store |-> data.var_data, raised |-> "none", attr |-> s[var_attr],
                 error |-> None, error_count |-> 0, log |-> <<>>]))

-----------------------------------------------------------------------------
(* GurobiAugmented._save_warm_start *)

\* Mutant of SaveAll: the loop stops one component short.
RECURSIVE SaveAllButLast(_, _, _, _)
SaveAllButLast(store, names, attr, i) ==
    IF i >= Len(names) THEN {[err |-> "none", store |-> store]}
    ELSE UNION { IF o.err = "none" THEN SaveAllButLast(o.store, names, attr, i + 1) ELSE {o}
                 : o \in SaveComponent(store, names[i], attr[names[i]]) }

\* "for component in map: data.save_component(component, getAttr(attr))":
\* the outcomes from position i on; the first exception ends the loop.
RECURSIVE SaveAll(_, _, _, _)
SaveAll(store, names, attr, i) ==
    IF i > Len(names) THEN {[err |-> "none", store |-> store]}
    ELSE UNION { IF o.err = "none" THEN SaveAll(o.store, names, attr, i + 1) ELSE {o}
                 : o \in SaveComponent(store, names[i], attr[names[i]]) }

RawPairs(names, attr) == [i \in DOMAIN names |-> [name |-> names[i], raw |-> attr[names[i]]]]

\* Mutant of CaptureSize: one slot too many is allocated.
CaptureSizePlusOne(names) == Len(names) + 1

\* n_var = len(self._pyomo_var_to_solver_var_map), and likewise n_const
CaptureSize(names) == Len(names)

\* The outcomes of _save_warm_start: the exception ("none" if none), the file,
\* the record of what was read and whether __getstate__ warned.
SaveWarmStart(s, save, f, cap) ==
    LET var_cls == IF save THEN "VBasis" ELSE "PicklableData"
        const_cls == IF save THEN "CBasis" ELSE "PicklableData"
        var_dtype == IF save THEN "uint8" ELSE "float"
        const_dtype == IF save THEN "bool" ELSE "float"
        var_attr == IF save THEN "VBasis" ELSE "X"
        const_attr == IF save THEN "CBasis" ELSE "Pi"
    IN  UNION { UNION {
          UNION { IF vo.err # "none"
                    THEN {[err |-> vo.err, file |-> f, captured |-> cap, warned |-> FALSE]}
                  ELSE { IF co.err # "none"
                           THEN [err |-> co.err, file |-> f, captured |-> cap, warned |-> FALSE]
                         ELSE [err |-> "none",
                               warned |-> (PickleWarns(vo.store) \/ PickleWarns(co.store)),
                               file |-> Dump(vo.store, co.store, save),
                               captured |-> [done |-> TRUE, use |-> save,
                                             vars |-> RawPairs(s.vars, s[var_attr]),
                                             cons |-> RawPairs(s.cons, s[const_attr])]]
                         : co \in SaveAll(NewStore(const_cls, const_dtype, CaptureSize(s.cons), cfill),
                                          s.cons, s[const_attr], 1) }
                  : vo \in SaveAll(NewStore(var_cls, var_dtype, CaptureSize(s.vars), vfill),
                                   s.vars, s[var_attr], 1) }
          : cfill \in Garbage(const_dtype) } : vfill \in Garbage(var_dtype) }

-----------------------------------------------------------------------------
(* One solve() call: _presolve, _warm_start, the solve, _postsolve *)

\* _presolve pops the three options into the solver object; the base class
\* then builds the session for the model passed to solve() and, when the caller
\* asked for a warm start, goes on to _warm_start ("WARMSTART"); otherwise the
\* session is ready to be solved ("READY").
Presolve(kwds, warmstart, vs, cs, mip) ==
    /\ phase = "IDLE"
    /\ cfg' = Configure(kwds)
    /\ sess' = NewSession(vs, cs, mip)
    /\ phase' = IF warmstart THEN "WARMSTART" ELSE "READY"
    /\ log' = <<>>
    /\ errCount' = 0
    /\ err' = "none"
    /\ UNCHANGED <<file, captured, besideCoord>>

\* Mutant of WarmStartMIP: the IsMIP test is missing and the bundle is applied.
WarmStartMIPFallsThrough ==
    /\ phase = "WARMSTART"
    /\ sess.mip
    /\ IF cfg.read # None /\ file.exists /\ ~file.corrupt
         THEN LET r == ApplyWarmStart(sess, Load(file))
              IN  /\ sess' = r.sess
                  /\ errCount' = r.error_count
                  /\ log' = r.log
                  /\ phase' = "WARMSTARTED"
                  /\ err' = err
         ELSE /\ err' = "Exception"
              /\ phase' = "FAILED"
              /\ UNCHANGED <<sess, errCount, log>>
    /\ UNCHANGED <<cfg, file, captured, besideCoord>>

\* Mutant of WarmStartMIP: read_warm_start is asked for before the IsMIP test.
WarmStartMIPNeedsPath ==
    /\ phase = "WARMSTART"
    /\ sess.mip
    /\ IF cfg.read = None
         THEN /\ err' = "Exception"
              /\ phase' = "FAILED"
              /\ sess' = sess
         ELSE /\ err' = err
              /\ phase' = "WARMSTARTED"
              /\ sess' = [sess EXCEPT !.Start = TRUE]
    /\ UNCHANGED <<cfg, file, captured, log, errCount, besideCoord>>

\* _warm_start on a discrete program: the base class's own warm start.
WarmStartMIP ==
    /\ phase = "WARMSTART"
    /\ sess.mip
    /\ sess' = [sess EXCEPT !.Start = TRUE]
    /\ phase' = "WARMSTARTED"
    /\ UNCHANGED <<cfg, file, captured, log, errCount, err, besideCoord>>

\* Mutant of WarmStartFail: a missing read_warm_start is passed over in silence.
WarmStartFailNoPathOk ==
    /\ phase = "WARMSTART"
    /\ ~sess.mip
    /\ cfg.read = None \/ ~file.exists \/ file.corrupt
    /\ err' = IF cfg.read = None THEN "none"
              ELSE IF ~file.exists THEN "FileNotFoundError" ELSE "UnpicklingError"
    /\ phase' = IF cfg.read = None THEN "WARMSTARTED" ELSE "FAILED"
    /\ UNCHANGED <<cfg, sess, file, captured, log, errCount, besideCoord>>

\* Mutant of WarmStartFail: a file that cannot be read counts as an empty bundle.
WarmStartFailBadFileOk ==
    /\ phase = "WARMSTART"
    /\ ~sess.mip
    /\ cfg.read = None \/ ~file.exists \/ file.corrupt
    /\ err' = IF cfg.read = None THEN "Exception" ELSE "none"
    /\ phase' = IF cfg.read = None THEN "FAILED" ELSE "WARMSTARTED"
    /\ UNCHANGED <<cfg, sess, file, captured, log, errCount, besideCoord>>

\* _warm_start on a continuous program without read_warm_start, or whose file
\* cannot be opened, or cannot be unpickled.
WarmStartFail ==
    /\ phase = "WARMSTART"
    /\ ~sess.mip
    /\ cfg.read = None \/ ~file.exists \/ file.corrupt
    /\ err' = IF cfg.read = None THEN "Exception"
              ELSE IF ~file.exists THEN "FileNotFoundError" ELSE "UnpicklingError"
    /\ phase' = "FAILED"
    /\ UNCHANGED <<cfg, sess, file, captured, log, errCount, besideCoord>>

\* _warm_start on a continuous program with a readable file.
WarmStart ==
    /\ phase = "WARMSTART"
    /\ ~sess.mip
    /\ cfg.read # None /\ file.exists /\ ~file.corrupt
    /\ LET r == ApplyWarmStart(sess, Load(file))
       IN  /\ sess' = r.sess
           /\ errCount' = r.error_count
           /\ log' = r.log
           /\ err' = r.err
           /\ phase' = IF r.err = "none" THEN "WARMSTARTED" ELSE "FAILED"
    /\ UNCHANGED <<cfg, file, captured, besideCoord>>

\* Mutant of Solve: optimize() may begin while _warm_start has yet to run.
SolveBeforeRestore(k) ==
    /\ phase \in {"READY", "WARMSTARTED", "WARMSTART"}
    /\ sess' = [sess EXCEPT
                 !.VBasis = [n \in Range(sess.vars) |-> VarOutcome(k, n).b],
                 !.X      = [n \in Range(sess.vars) |-> VarOutcome(k, n).x],
                 !.CBasis = [n \in Range(sess.cons) |-> ConOutcome(k, n).b],
                 !.Pi     = [n \in Range(sess.cons) |-> ConOutcome(k, n).pi]]
    /\ phase' = "SOLVED"
    /\ log' = Append(log, Event("optimize", "", "", 0))
    /\ UNCHANGED <<cfg, file, captured, errCount, err, besideCoord>>

\* The blocking optimize() of the session: outcome k of the external solver.
Solve(k) ==
    /\ phase \in {"READY", "WARMSTARTED"}
    /\ sess' = [sess EXCEPT
                 !.VBasis = [n \in Range(sess.vars) |-> VarOutcome(k, n).b],
                 !.X      = [n \in Range(sess.vars) |-> VarOutcome(k, n).x],
                 !.CBasis = [n \in Range(sess.cons) |-> ConOutcome(k, n).b],
                 !.Pi     = [n \in Range(sess.cons) |-> ConOutcome(k, n).pi]]
    /\ phase' = "SOLVED"
    /\ log' = Append(log, Event("optimize", "", "", 0))
    /\ UNCHANGED <<cfg, file, captured, errCount, err, besideCoord>>

\* Mutant of PostsolvePlain: _postsolve never looks at write_warm_start.
PostsolvePlainAlways ==
    /\ phase = "SOLVED"
    /\ phase' = "DONE"
    /\ UNCHANGED <<cfg, sess, file, captured, log, errCount, err, besideCoord>>

\* _postsolve without write_warm_start.
PostsolvePlain ==
    /\ phase = "SOLVED"
    /\ cfg.write = None
    /\ phase' = "DONE"
    /\ UNCHANGED <<cfg, sess, file, captured, log, errCount, err, besideCoord>>

\* _postsolve with write_warm_start: _save_warm_start.
PostsolveSave ==
    /\ phase = "SOLVED"
    /\ cfg.write # None
    /\ \E o \in SaveWarmStart(sess, cfg.save, file, captured) :
          /\ err' = o.err
          /\ file' = o.file
          /\ captured' = o.captured
          /\ phase' = IF o.err = "none" THEN "DONE" ELSE "FAILED"
          /\ log' = IF o.err # "none" THEN log
                    ELSE IF o.warned
                      THEN log \o <<Event("picklewarn", Path, "", 0), Event("dump", Path, "", 0)>>
                    ELSE Append(log, Event("dump", Path, "", 0))
    /\ UNCHANGED <<cfg, sess, errCount, besideCoord>>

\* solve() returns or raises: the caller is back in control, the session and
\* the record of this call are dropped; the solver object keeps its options.
Return ==
    /\ phase \in {"DONE", "FAILED"}
    /\ phase' = "IDLE"
    /\ sess' = NoSession
    /\ log' = <<>>
    /\ errCount' = 0
    /\ err' = "none"
    /\ UNCHANGED <<cfg, file, captured, besideCoord>>

-----------------------------------------------------------------------------
(* One store object driven through its methods *)

MaxN == 2           \* largest capacity n a store is created with

StoreClasses == {[cls |-> "PicklableData", dtype |-> "float"],
                 [cls |-> "VBasis", dtype |-> "uint8"],
                 [cls |-> "CBasis", dtype |-> "bool"]}

\* Names passed to save_component and to get_component.  No component is
\* named "", which is the name __init__ fills the list with.
AppendNames == {"a", "b"}
LookupNames == {"", "a", "b", "z"}

\* Raw values passed to save_component, by class: the basis codes plus codes
\* that are none, and a few floats.
RawValues(cls) ==
    IF cls = "VBasis" THEN {0, -1, -2, -3, -4, 1}
    ELSE IF cls = "CBasis" THEN {0, -1, -2, 1}
    ELSE {0, 5, -3}

NoStore == NewStore("PicklableData", "float", 0, 0)
NoCall == [op |-> "none", name |-> "", val |-> 0, err |-> "none", res |-> 0,
           frozen |-> FALSE, changed |-> FALSE, idx |-> 0]

Entries(s) == <<s.names, s.vals>>

\* store.save_component(component, val)
StSave(name, val) ==
    /\ \E o \in SaveComponent(st, name, val) :
          /\ st' = o.store
          /\ stHist' = IF o.err = "none"
                         THEN Append(stHist, [name |-> name, raw |-> val])
                         ELSE stHist
          /\ stLast' = [op |-> "save", name |-> name, val |-> val, err |-> o.err, res |-> 0,
                        frozen |-> st.built, changed |-> Entries(o.store) # Entries(st),
                        idx |-> st.next_index]
    /\ stLate' = (stLate \/ st.built)
    /\ UNCHANGED besideStore

\* store.get_component(component)
StGet(name) ==
    /\ LET r == GetComponent(st, name)
       IN  /\ st' = r.store
           /\ stLast' = [op |-> "get", name |-> name, val |-> 0, err |-> r.err, res |-> r.val,
                         frozen |-> st.built, changed |-> Entries(r.store) # Entries(st),
                         idx |-> st.next_index]
    /\ UNCHANGED <<stHist, stLate, besideStore>>

\* self._active_scenario = None
NoScenario == -1

\* No get_dataframe call was made yet.
NoDfCall ==
    [called |-> FALSE, filename |-> "", folder |-> None, from_inputs |-> FALSE,
     convert_dot_to_na |-> FALSE, force_one_scenario |-> FALSE,
     drop_scenario_info |-> FALSE, rows |-> <<>>, alias |-> <<>>, mutated |-> FALSE]

\* GraphTools.__init__ with FigureHandler.__init__, and the history kept of the
\* registrations and of the current run_graph_func.  figure is the argument of
\* graph_scenarios, runs the names it has called run_graph_func with, warned
\* the names of the graphs an exception of which became a warning.  dfs is
\* DataHandler._dfs and df_last the last get_dataframe call with its result.
NewTools(n, skip_long) ==
    [num_scenarios |-> n, skip_long |-> skip_long,
     active_scenario |-> NoScenario, run_per_scenario |-> FALSE,
     allow_multiple_figures |-> FALSE, default_filename |-> "",
     figures |-> EmptyMap,
     pc |-> "idle", func |-> "", todo |-> <<>>,
     calls |-> <<>>, saved |-> {},
     figure |-> None, runs |-> <<>>, warned |-> {},
     dfs |-> EmptyMap, df_last |-> NoDfCall,
     first |-> EmptyMap,
     last |-> [name |-> "", err |-> "none"]]

NoTools == NewTools(0, FALSE)

\* No command-line program runs.
NoCli == [prog |-> "none"]

\* No graphing goes on in the specifications of the solver plugin.
GraphIdle ==
    /\ registered_graphs = <<>>
    /\ CATCH_EXCEPTIONS = TRUE
    /\ tools = NoTools
    /\ cli = NoCli

\* pickle.loads(pickle.dumps(store)): __getstate__ then, on a new object,
\* __setstate__; the new object takes the place of the store.  __getstate__
\* reads next_index and n, which a store that was itself loaded does not have.
StPickle ==
    /\ IF CanGetState(st)
         THEN /\ st' = SetState(GetState(st))
              /\ stLast' = [op |-> "pickle", name |-> "", val |-> 0, err |-> "none", res |-> 0,
                            frozen |-> st.built,
                            changed |-> Entries(SetState(GetState(st))) # Entries(st),
                            idx |-> st.next_index]
              /\ stLate' = FALSE
         ELSE /\ st' = st
              /\ stLast' = [op |-> "pickle", name |-> "", val |-> 0, err |-> "AttributeError",
                            res |-> 0, frozen |-> st.built, changed |-> FALSE,
                            idx |-> st.next_index]
              /\ stLate' = stLate
    /\ UNCHANGED <<stHist, besideStore>>

StoreInit ==
    /\ phase = "IDLE"
    /\ cfg = NoCfg
    /\ sess = NoSession
    /\ file = NoFile
    /\ captured = NoCapture
    /\ log = <<>>
    /\ errCount = 0
    /\ err = "none"
    /\ \E c \in StoreClasses, n \in 0..MaxN :
          \E fill \in Garbage(c.dtype) : st = NewStore(c.cls, c.dtype, n, fill)
    /\ stHist = <<>>
    /\ stLast = NoCall
    /\ stLate = FALSE
    /\ GraphIdle

StoreNext ==
    \/ \E name \in AppendNames : \E val \in RawValues(st.cls) : StSave(name, val)
    \/ \E name \in LookupNames : StGet(name)
    \/ StPickle

StoreSpec == StoreInit /\ [][StoreNext]_vars

-----------------------------------------------------------------------------

Init ==
    /\ phase = "IDLE"
    /\ cfg = NoCfg
    /\ sess = NoSession
    /\ file = NoFile
    /\ captured = NoCapture
    /\ log = <<>>
    /\ errCount = 0
    /\ err = "none"
    /\ st = NoStore
    /\ stHist = <<>>
    /\ stLast = NoCall
    /\ stLate = FALSE
    /\ GraphIdle

Next ==
    \/ \E kwds \in KwChoices, ws \in BOOLEAN, vs \in VarShapes, cs \in ConShapes, mip \in BOOLEAN :
          Presolve(kwds, ws, vs, cs, mip)
    \/ WarmStartMIP
    \/ WarmStartFail
    \/ WarmStart
    \/ \E k \in Outcomes : Solve(k)
    \/ PostsolvePlain
    \/ PostsolveSave
    \/ Return

Spec == Init /\ [][Next]_vars

\* The same program started with any of the ForeignFiles at the path.
FileInit ==
    /\ phase = "IDLE"
    /\ cfg = NoCfg
    /\ sess = NoSession
    /\ file \in ForeignFiles
    /\ captured = NoCapture
    /\ log = <<>>
    /\ errCount = 0
    /\ err = "none"
    /\ st = NoStore
    /\ stHist = <<>>
    /\ stLast = NoCall
    /\ stLate = FALSE
    /\ GraphIdle

FileSpec == FileInit /\ [][Next]_vars

-----------------------------------------------------------------------------
(* tools/graph/main.py: registered_graphs, GraphTools and FigureHandler *)

MaxScen == 2        \* largest number of scenarios a GraphTools is built for

GraphNames == {"g1", "g2"}

\* The options a graphing function is registered with.
GraphOptions ==
    { [supports_multi_scenario |-> FALSE, requires_multi_scenario |-> FALSE, is_long |-> FALSE],
      [supports_multi_scenario |-> TRUE,  requires_multi_scenario |-> FALSE, is_long |-> FALSE],
      [supports_multi_scenario |-> FALSE, requires_multi_scenario |-> TRUE,  is_long |-> FALSE],
      [supports_multi_scenario |-> FALSE, requires_multi_scenario |-> FALSE, is_long |-> TRUE] }

\* The wrapper the decorator builds: its attributes and the two options its
\* body tests.
Wrapper(name, o) ==
    [name |-> name,
     multi_scenario |-> (o.supports_multi_scenario \/ o.requires_multi_scenario),
     is_long |-> o.is_long,
     requires_multi_scenario |-> o.requires_multi_scenario]

\* "name in registered_graphs" and "registered_graphs[name]"
Registered(reg, name) == \E i \in DOMAIN reg : reg[i].name = name
GraphOf(reg, name) == reg[CHOOSE i \in DOMAIN reg : reg[i].name = name]

\* What a graphing function does with the tools it is handed: a sequence of
\* figure calls under the default file name ("add") or one of its own
\* ("add_extra"), possibly ended by an exception ("raise").  Bodies are the
\* behaviours told apart: no figure, one, two under one name or under two, and
\* an exception before or after the first figure.
BodyOps == {"add", "add_extra", "raise"}
Bodies ==
    { <<>>, <<"add">>, <<"add_extra">>, <<"raise">>,
      <<"add", "add">>, <<"add", "add_extra">>, <<"add_extra", "add">>,
      <<"add", "raise">>, <<"add_extra", "raise">> }
ExtraFile == "extra"

\* An add_figure that puts the new figure in the place of the one a file
\* name already has.
AddFigureReplace(t, filename) ==
    LET n == Cardinality(DOMAIN t.figures)
        fig == [scenario |-> t.active_scenario,
                note |-> IF t.allow_multiple_figures THEN n ELSE NoScenario]
    IN  IF t.allow_multiple_figures /\ n >= t.num_scenarios
          THEN [err |-> "IndexError", figures |-> t.figures]
        ELSE [err |-> "none",
              figures |-> [f \in DOMAIN t.figures \cup {filename} |->
                             IF f = filename THEN <<fig>> ELSE t.figures[f]]]

\* FigureHandler.add_figure: the exception raised ("none" if none) and the
\* figures it leaves.  With multiple figures allowed the note names
\* self._scenarios[len(self._figures)].
AddFigure(t, filename) ==
    LET n == Cardinality(DOMAIN t.figures)
        fig == [scenario |-> t.active_scenario,
                note |-> IF t.allow_multiple_figures THEN n ELSE NoScenario]
    IN  IF t.allow_multiple_figures /\ n >= t.num_scenarios
          THEN [err |-> "IndexError", figures |-> t.figures]
        ELSE IF filename \notin DOMAIN t.figures
          THEN [err |-> "none",
                figures |-> [f \in DOMAIN t.figures \cup {filename} |->
                               IF f = filename THEN <<fig>> ELSE t.figures[f]]]
        ELSE IF t.allow_multiple_figures
          THEN [err |-> "none",
                figures |-> [t.figures EXCEPT ![filename] = Append(@, fig)]]
        ELSE [err |-> "Exception", figures |-> t.figures]

\* The body of a graphing function from its i-th call on: the exception that
\* ended it ("none" if none) and the tools it leaves.
RECURSIVE RunBody(_, _, _)
RunBody(body, i, t) ==
    IF i > Len(body) THEN [err |-> "none", tools |-> t]
    ELSE IF body[i] = "raise" THEN [err |-> "Exception", tools |-> t]
    ELSE LET r == AddFigure(t, IF body[i] = "add" THEN t.default_filename ELSE ExtraFile)
         IN  IF r.err # "none" THEN [err |-> r.err, tools |-> t]
             ELSE RunBody(body, i + 1, [t EXCEPT !.figures = r.figures])

\* A wrapper that lets the exceptions of the function through.
CallWrapperNoCatch(w, body, t) ==
    IF (t.skip_long /\ w.is_long) \/ (t.num_scenarios < 2 /\ w.requires_multi_scenario)
      THEN [ran |-> FALSE, err |-> "none", caught |-> "none", tools |-> t]
    ELSE LET r == RunBody(body, 1, t)
         IN  [ran |-> TRUE, err |-> r.err, caught |-> "none", tools |-> r.tools]

\* wrapper(tools) of the decorator, inside catch_exceptions: whether the
\* function's body ran, the exception that came out of the wrapper and the one
\* that was caught ("none" if none), and the tools it leaves.
CallWrapper(w, body, t) ==
    IF (t.skip_long /\ w.is_long) \/ (t.num_scenarios < 2 /\ w.requires_multi_scenario)
      THEN [ran |-> FALSE, err |-> "none", caught |-> "none", tools |-> t]
    ELSE LET r == RunBody(body, 1, t)
         IN  [ran |-> TRUE,
              err |-> IF CATCH_EXCEPTIONS THEN "none" ELSE r.err,
              caught |-> IF CATCH_EXCEPTIONS THEN r.err ELSE "none",
              tools |-> r.tools]

\* FigureHandler.save_figures: the files written, each with the number of
\* figures put side by side in it.
SavedFiles(figures) == {[file |-> f, n |-> Len(figures[f])] : f \in DOMAIN figures}

\* A registration that replaces the wrapper a name already has.
RegistrationOverwrite(reg, w) ==
    IF Registered(reg, w.name)
      THEN [err |-> "none",
            reg |-> [i \in DOMAIN reg |-> IF reg[i].name = w.name THEN w ELSE reg[i]]]
      ELSE [err |-> "none", reg |-> Append(reg, w)]

\* The end of the decorator: the exception it raises ("none" if none) and the
\* registry it leaves.
Registration(reg, w) ==
    IF Registered(reg, w.name)
      THEN [err |-> "Exception", reg |-> reg]
      ELSE [err |-> "none", reg |-> Append(reg, w)]

\* @graph(name, ...) applied to a function, which graph_scenarios has the
\* imports do before it runs the first graph.  tools.first remembers, for each
\* name, the wrapper of the first registration attempted under it.
Register(name, o) ==
    /\ tools.pc = "idle"
    /\ tools.func = ""
    /\ LET r == Registration(registered_graphs, Wrapper(name, o))
       IN  /\ registered_graphs' = r.reg
           /\ tools' = [tools EXCEPT
                          !.last = [name |-> name, err |-> r.err],
                          !.first = IF name \in DOMAIN tools.first THEN tools.first
                                    ELSE [g \in DOMAIN tools.first \cup {name} |->
                                            IF g = name THEN Wrapper(name, o)
                                            ELSE tools.first[g]]]
    /\ UNCHANGED <<CATCH_EXCEPTIONS, besideGraph>>

\* A run per scenario whenever there are several scenarios.
RunPerScenarioAlways(t, func) == t.num_scenarios > 1

\* self._run_per_scenario of run_graph_func
RunPerScenario(t, func) == t.num_scenarios > 1 /\ ~func.multi_scenario

\* The graph graph_scenarios runs next: every registered one in the order of
\* the registry, or the one named figure; None when there is none left.
NextGraph(reg, t) ==
    IF t.figure = None
      THEN IF Len(t.runs) < Len(reg) THEN reg[Len(t.runs) + 1].name ELSE None
      ELSE IF t.runs = <<>> THEN t.figure ELSE None

\* graph_scenarios calls run_graph_func(func): run_graph_func up to its loop.
RunBegin(name) ==
    /\ tools.pc = "idle"
    /\ name = NextGraph(registered_graphs, tools)
    /\ Registered(registered_graphs, name)
    /\ LET func == GraphOf(registered_graphs, name)
           run_per == RunPerScenario(tools, func)
       IN  tools' = [tools EXCEPT
                       !.pc = "calls", !.func = func.name,
                       !.run_per_scenario = run_per,
                       !.allow_multiple_figures = run_per,
                       !.default_filename = func.name,
                       !.todo = IF run_per THEN [i \in 1..tools.num_scenarios |-> i - 1]
                                           ELSE <<0>>,
                       !.calls = <<>>, !.saved = {},
                       !.runs = Append(tools.runs, name)]
    /\ UNCHANGED <<registered_graphs, CATCH_EXCEPTIONS, besideGraph>>

\* One "self._active_scenario = i; func(self)" of run_graph_func, the function
\* behaving as body; an exception that is not caught leaves run_graph_func.
RunCall(body) ==
    /\ tools.pc = "calls"
    /\ tools.todo # <<>>
    /\ LET i == Head(tools.todo)
           r == CallWrapper(GraphOf(registered_graphs, tools.func), body,
                            [tools EXCEPT !.active_scenario = i])
       IN  tools' = [r.tools EXCEPT
                       !.todo = Tail(tools.todo),
                       !.calls = Append(tools.calls,
                                        [scenario |-> r.tools.active_scenario, ran |-> r.ran,
                                         caught |-> r.caught]),
                       !.warned = IF r.caught = "none" THEN tools.warned
                                  ELSE tools.warned \cup {tools.func},
                       !.pc = IF r.err = "none" THEN "calls" ELSE "raised"]
    /\ UNCHANGED <<registered_graphs, CATCH_EXCEPTIONS, besideGraph>>

\* The end of run_graph_func: the active scenario is reset and save_figures runs.
RunEnd ==
    /\ tools.pc = "calls"
    /\ tools.todo = <<>>
    /\ tools' = [tools EXCEPT
                   !.active_scenario = NoScenario,
                   !.saved = SavedFiles(tools.figures),
                   !.figures = EmptyMap,
                   !.pc = "idle"]
    /\ UNCHANGED <<registered_graphs, CATCH_EXCEPTIONS, besideGraph>>

\* graph_scenarios with a figure that is not registered raises.
FigureMissing ==
    /\ tools.pc = "idle"
    /\ tools.figure # None
    /\ tools.runs = <<>>
    /\ ~Registered(registered_graphs, tools.figure)
    /\ tools' = [tools EXCEPT !.pc = "raised"]
    /\ UNCHANGED <<registered_graphs, CATCH_EXCEPTIONS, besideGraph>>

\* graph_scenarios returns.
Finish ==
    /\ tools.pc = "idle"
    /\ NextGraph(registered_graphs, tools) = None
    /\ tools' = [tools EXCEPT !.pc = "done"]
    /\ UNCHANGED <<registered_graphs, CATCH_EXCEPTIONS, besideGraph>>

GraphInit ==
    /\ phase = "IDLE"
    /\ cfg = NoCfg
    /\ sess = NoSession
    /\ file = NoFile
    /\ captured = NoCapture
    /\ log = <<>>
    /\ errCount = 0
    /\ err = "none"
    /\ st = NoStore
    /\ stHist = <<>>
    /\ stLast = NoCall
    /\ stLate = FALSE
    /\ cli = NoCli
    /\ registered_graphs = <<>>
    /\ CATCH_EXCEPTIONS \in BOOLEAN
    /\ \E n \in 1..MaxScen, skip_long \in BOOLEAN, figure \in {None} \cup GraphNames :
          tools = [NewTools(n, skip_long) EXCEPT !.figure = figure]

GraphNext ==
    \/ \E name \in GraphNames, o \in GraphOptions : Register(name, o)
    \/ \E name \in GraphNames : RunBegin(name)
    \/ \E body \in Bodies : RunCall(body)
    \/ RunEnd
    \/ FigureMissing
    \/ Finish

GraphSpec == GraphInit /\ [][GraphNext]_vars

-----------------------------------------------------------------------------
(* tools/graph/main.py: DataHandler *)

\* DataHandler.ENABLE_DF_CACHING
ENABLE_DF_CACHING == TRUE

\* The csv files of the scenarios.  The file a.csv exists in the outputs and
\* in the inputs folder of every scenario; the cells of its one data column
\* differ between the scenarios, and the outputs file has a "." cell.
ScenarioValue(i) == <<"v0", "v1", "v2", "v3">>[i + 1]
CsvCells(path, i) ==
    IF path[1] = "outputs" THEN <<".", ScenarioValue(i)>> ELSE <<ScenarioValue(i)>>

FileNames == {"a", "a.csv"}
Folders == {None, "inputs"}

\* filename, with ".csv" added unless it ends with it
CsvName(filename) == IF filename = "a" THEN "a.csv" ELSE filename

\* os.path.join(folder, filename), the folder being "inputs" or "outputs"
\* when none is given
PathOf(filename, folder, from_inputs) ==
    << IF folder # None THEN folder ELSE IF from_inputs THEN "inputs" ELSE "outputs",
       CsvName(filename) >>

\* pd.read_csv of one scenario's file with the two scenario columns added; with
\* na_values="." a "." cell is read as missing ("NA").  The scenario name goes
\* with the index and is left out.
ReadCsv(path, i, na) ==
    LET cells == CsvCells(path, i)
    IN  [k \in DOMAIN cells |->
           [scenario_index |-> i,
            val |-> IF na /\ cells[k] = "." THEN "NA" ELSE cells[k]]]

\* _load_dataframe: the rows of the scenarios from number i on, concatenated.
RECURSIVE LoadDataframe(_, _, _, _)
LoadDataframe(t, path, na, i) ==
    IF i >= t.num_scenarios THEN <<>>
    ELSE ReadCsv(path, i, na) \o LoadDataframe(t, path, na, i + 1)

\* df.copy(): a new object with the same rows.  A dataframe is its rows and
\* alias, the path of the cache entry that is the same object (<<>> if none).
CopyOf(df) == [rows |-> df.rows, alias |-> <<>>]

\* df[df['scenario_index'] == active]
RECURSIVE FilterRows(_, _)
FilterRows(rows, active) ==
    IF rows = <<>> THEN <<>>
    ELSE (IF Head(rows).scenario_index = active THEN <<Head(rows)>> ELSE <<>>)
         \o FilterRows(Tail(rows), active)

\* df.drop(["scenario_index", "scenario_name"], axis=1)
DropScenarioInfo(rows) ==
    [k \in DOMAIN rows |-> [rows[k] EXCEPT !.scenario_index = NoScenario]]

\* The end of get_dataframe: the dataframe narrowed down to the active
\* scenario, which is a new object.
ForScenario(t, df, force_one_scenario, drop_scenario_info) ==
    IF t.run_per_scenario \/ force_one_scenario
      THEN [rows |-> IF drop_scenario_info
                       THEN DropScenarioInfo(FilterRows(df.rows, t.active_scenario))
                       ELSE FilterRows(df.rows, t.active_scenario),
            alias |-> <<>>]
      ELSE df

\* The dataframe get_dataframe goes on with and the cache it leaves, the key of
\* the cache being the path alone.
CachedOrLoaded(t, path, na) ==
    IF path \notin DOMAIN t.dfs
      THEN LET df == [rows |-> LoadDataframe(t, path, na, 0), alias |-> <<>>]
           IN  [df |-> df,
                dfs |-> IF ENABLE_DF_CACHING
                          THEN [q \in DOMAIN t.dfs \cup {path} |->
                                  IF q = path THEN CopyOf(df).rows ELSE t.dfs[q]]
                          ELSE t.dfs]
      ELSE [df |-> CopyOf([rows |-> t.dfs[path], alias |-> path]), dfs |-> t.dfs]

\* DataHandler.get_dataframe, called by a graphing function.
GetDataframe(filename, folder, from_inputs, convert_dot_to_na, force_one_scenario, drop_scenario_info) ==
    /\ tools.pc = "data"
    /\ LET path == PathOf(filename, folder, from_inputs)
           c == CachedOrLoaded(tools, path, convert_dot_to_na)
           df == ForScenario(tools, c.df, force_one_scenario, drop_scenario_info)
       IN  tools' = [tools EXCEPT
                       !.dfs = c.dfs,
                       !.df_last = [called |-> TRUE, filename |-> filename, folder |-> folder,
                                    from_inputs |-> from_inputs,
                                    convert_dot_to_na |-> convert_dot_to_na,
                                    force_one_scenario |-> force_one_scenario,
                                    drop_scenario_info |-> drop_scenario_info,
                                    rows |-> df.rows, alias |-> df.alias,
                                    mutated |-> FALSE]]
    /\ UNCHANGED <<registered_graphs, CATCH_EXCEPTIONS, besideGraph>>

\* The caller overwrites the cells of the dataframe it was returned; a cache
\* entry changes with it only if it is the same object.
Overwritten(rows) == [k \in DOMAIN rows |-> [rows[k] EXCEPT !.val = "X"]]

MutateReturned ==
    /\ tools.pc = "data"
    /\ tools.df_last.called
    /\ ~tools.df_last.mutated
    /\ tools' = [tools EXCEPT
                   !.df_last.mutated = TRUE,
                   !.dfs = IF tools.df_last.alias \in DOMAIN tools.dfs
                             THEN [tools.dfs EXCEPT
                                     ![tools.df_last.alias] = Overwritten(@)]
                             ELSE tools.dfs]
    /\ UNCHANGED <<registered_graphs, CATCH_EXCEPTIONS, besideGraph>>

\* A GraphTools object inside a call of a graphing function, as run_graph_func
\* sets it up: one scenario is active, and it is scenario 0 unless the function
\* is run per scenario.
DataInit ==
    /\ phase = "IDLE"
    /\ cfg = NoCfg
    /\ sess = NoSession
    /\ file = NoFile
    /\ captured = NoCapture
    /\ log = <<>>
    /\ errCount = 0
    /\ err = "none"
    /\ st = NoStore
    /\ stHist = <<>>
    /\ stLast = NoCall
    /\ stLate = FALSE
    /\ cli = NoCli
    /\ registered_graphs = <<>>
    /\ CATCH_EXCEPTIONS = TRUE
    /\ \E n \in 1..MaxScen, per \in BOOLEAN, active \in 0..(MaxScen - 1) :
          /\ active < n
          /\ per => n > 1
          /\ ~per => active = 0
          /\ tools = [NewTools(n, FALSE) EXCEPT
                        !.pc = "data", !.run_per_scenario = per,
                        !.allow_multiple_figures = per, !.active_scenario = active]

DataNext ==
    \/ \E filename \in FileNames, folder \in Folders, from_inputs \in BOOLEAN,
          convert_dot_to_na \in BOOLEAN, force_one_scenario \in BOOLEAN,
          drop_scenario_info \in BOOLEAN :
          GetDataframe(filename, folder, from_inputs, convert_dot_to_na,
                       force_one_scenario, drop_scenario_info)
    \/ MutateReturned

DataSpec == DataInit /\ [][DataNext]_vars

-----------------------------------------------------------------------------
(* tools/graph.py: get_graphing_folder *)

\* The state of the solver plugin, of the store and of the graphing tools
\* while a command-line program is modelled.
CliIdle ==
    /\ phase = "IDLE"
    /\ cfg = NoCfg
    /\ sess = NoSession
    /\ file = NoFile
    /\ captured = NoCapture
    /\ log = <<>>
    /\ errCount = 0
    /\ err = "none"
    /\ st = NoStore
    /\ stHist = <<>>
    /\ stLast = NoCall
    /\ stLate = FALSE
    /\ registered_graphs = <<>>
    /\ CATCH_EXCEPTIONS = TRUE
    /\ tools = NoTools

\* The files a graphs folder may hold before the program runs.
OldFiles == {"old.png", "notes.txt"}

\* get_graphing_folder(args) with the folder as c describes it, answer being
\* what the user replies if asked: the exception raised ("none" if none),
\* whether the user was asked, and the folder it leaves.
GraphingFolder(c, answer) ==
    IF c.num_scenarios > 1 /\ c.graphs_dir = "graphs"
      THEN [err |-> "Exception", asked |-> FALSE, exists |-> c.exists, files |-> c.files]
    ELSE IF c.exists
      THEN [err |-> IF ~c.overwrite /\ ~answer THEN "Exception" ELSE "none",
            asked |-> ~c.overwrite, exists |-> c.exists, files |-> c.files]
    ELSE [err |-> "none", asked |-> FALSE, exists |-> TRUE, files |-> {}]

\* main() of graph.py calls get_graphing_folder(args).
GetGraphingFolder(answer) ==
    /\ cli.prog = "graph"
    /\ cli.pc = "start"
    /\ LET r == GraphingFolder(cli, answer)
       IN  cli' = [cli EXCEPT
                     !.pc = IF r.err = "none" THEN "returned" ELSE "raised",
                     !.asked = r.asked, !.exists = r.exists, !.files = r.files]
    /\ UNCHANGED besideCli

\* main() goes on and a graph is saved in the folder.
SaveGraph(name) ==
    /\ cli.prog = "graph"
    /\ cli.pc \in {"returned", "graphing"}
    /\ cli' = [cli EXCEPT !.pc = "graphing", !.files = cli.files \cup {name}]
    /\ UNCHANGED besideCli

FolderInit ==
    /\ CliIdle
    /\ \E n \in 1..MaxScen, dir \in {"graphs", "compare"}, overwrite \in BOOLEAN,
          exists \in BOOLEAN, files \in SUBSET OldFiles :
          /\ ~exists => files = {}
          /\ cli = [prog |-> "graph", pc |-> "start", num_scenarios |-> n,
                    graphs_dir |-> dir, overwrite |-> overwrite,
                    exists |-> exists, files |-> files,
                    before |-> [exists |-> exists, files |-> files], asked |-> FALSE]

FolderNext ==
    \/ \E answer \in BOOLEAN : GetGraphingFolder(answer)
    \/ \E name \in {"new.png", "old.png"} : SaveGraph(name)

FolderSpec == FolderInit /\ [][FolderNext]_vars

-----------------------------------------------------------------------------
(* wecc/sampling/cli.py *)

MaxSpan == 4        \* largest end_year - start_year of the configuration file
MaxLength == 3      \* largest period length of the configuration file

StartYears == {-3, 2020, 2021}

\* int(round(x / 2)) for an integer x: Python rounds a half to the even
\* neighbour.
RoundHalf(x) ==
    IF x % 2 = 0 THEN x \div 2
    ELSE LET q == (x - 1) \div 2 IN IF q % 2 = 0 THEN q ELSE q + 1

\* Rows whose end year is the start of the next row.
PeriodRowsOverlap(start_year, end_year, period_length) ==
    [i \in 1..((end_year - start_year + period_length - 1) \div period_length) |->
       LET period_start == start_year + (i - 1) * period_length
       IN  [period_id |-> i, start_year |-> period_start,
            label |-> RoundHalf(period_start + (period_start + period_length - 1)),
            length_yrs |-> period_length, end_year |-> period_start + period_length]]

\* The values insert_periods builds, inserts and returns: one row for each
\* element of range(start_year, end_year, period_length), without the study id.
PeriodRows(start_year, end_year, period_length) ==
    [i \in 1..((end_year - start_year + period_length - 1) \div period_length) |->
       LET period_start == start_year + (i - 1) * period_length
       IN  [period_id |-> i, start_year |-> period_start,
            label |-> RoundHalf(period_start + (period_start + period_length - 1)),
            length_yrs |-> period_length, end_year |-> period_start + period_length - 1]]

\* main() goes on whatever the user answers.
AskAnyAnswer(prompt, answer) ==
    /\ cli.prog = "sampling"
    /\ cli.pc = prompt
    /\ cli' = [cli EXCEPT
                 !.answers = Append(cli.answers, [prompt |-> prompt, answer |-> answer]),
                 !.pc = IF prompt = "overwrite" THEN "config" ELSE "study_timeframe"]
    /\ UNCHANGED besideCli

\* main() prints a prompt and calls confirm(): sys.exit() unless the user
\* confirms.  The overwrite prompt comes first and only with --overwrite.
Ask(prompt, answer) ==
    /\ cli.prog = "sampling"
    /\ cli.pc = prompt
    /\ cli' = [cli EXCEPT
                 !.answers = Append(cli.answers, [prompt |-> prompt, answer |-> answer]),
                 !.pc = IF ~answer THEN "exited"
                        ELSE IF prompt = "overwrite" THEN "config" ELSE "study_timeframe"]
    /\ UNCHANGED besideCli

\* The tables each step of main() inserts into, and the step after it.
SamplingSteps ==
    [study_timeframe |-> [tables |-> <<"study_timeframe">>, next |-> "period"],
     period |-> [tables |-> <<"period">>, next |-> "time_sample"],
     time_sample |-> [tables |-> <<"time_sample">>, next |-> "sampled"],
     sampled |-> [tables |-> <<"sampled_timeseries", "sampled_timepoint">>, next |-> "done"]]

\* One of insert_study_timeframe_id, insert_periods, insert_time_sample and
\* insert_timeseries_tps, called by main(): done of its insert_to_db calls
\* succeed and the next one, if any, raises.
Insert(done) ==
    /\ cli.prog = "sampling"
    /\ cli.pc \in DOMAIN SamplingSteps
    /\ LET step == SamplingSteps[cli.pc]
           rows == PeriodRows(cli.start_year, cli.end_year, cli.period_length)
       IN  /\ done <= Len(step.tables)
           /\ cli' = [cli EXCEPT
                        !.inserted = cli.inserted \o SubSeq(step.tables, 1, done),
                        !.period_values =
                            IF cli.pc = "period" /\ done = 1 THEN rows ELSE cli.period_values,
                        !.passed = IF cli.pc = "sampled" THEN cli.period_values ELSE cli.passed,
                        !.pc = IF done = Len(step.tables) THEN step.next ELSE "failed"]
    /\ UNCHANGED besideCli

SamplingInit ==
    /\ CliIdle
    /\ \E overwrite \in BOOLEAN, start_year \in StartYears, span \in 1..MaxSpan,
          period_length \in 1..MaxLength :
          cli = [prog |-> "sampling", pc |-> IF overwrite THEN "overwrite" ELSE "config",
                 overwrite |-> overwrite, start_year |-> start_year,
                 end_year |-> start_year + span, period_length |-> period_length,
                 answers |-> <<>>, inserted |-> <<>>,
                 period_values |-> <<>>, passed |-> <<>>]

SamplingNext ==
    \/ \E prompt \in {"overwrite", "config"}, answer \in BOOLEAN : Ask(prompt, answer)
    \/ \E done \in 0..2 : Insert(done)

SamplingSpec == SamplingInit /\ [][SamplingNext]_vars

-----------------------------------------------------------------------------
(* policies/carbon_policies.py *)

Gases == {"co2", "nox", "so2", "ch4"}
Periods == {2030, 2040}

\* float('inf'), and a finite number, as values of a cap.
Inf == [inf |-> TRUE, v |-> 0]
CapValues == {Inf} \cup {[inf |-> FALSE, v |-> v] : v \in {0, 5}}
CostValues == {3}

\* The value of Param(model.PERIODS, default=...) at p: the value loaded from
\* carbon_policies.csv, or the default where the file gives none.
ParamValue(data, p, default) == IF p \in DOMAIN data THEN data[p] ELSE default

\* The emissions of a gas in a period, of the solution the constraints and the
\* costs are evaluated on.
AnnualEmissions(gas, p) ==
    [co2 |-> 7, nox |-> 3, so2 |-> 2, ch4 |-> 1][gas] + (IF p = 2040 THEN 1 ELSE 0)

\* enforce_carbon_cap_scaling_factor = 1e-1 as a fraction, for co2, and the
\* unscaled rule for the other gases.
ScalingFactor(gas) == IF gas = "co2" THEN <<1, 10>> ELSE <<1, 1>>

\* The emissions are scaled and the cap is not.
CapRuleOneSide(gas, cap) ==
    IF cap = Inf THEN <<>>
    ELSE <<[coef |-> ScalingFactor(gas), upper |-> <<cap.v, 1>>]>>

\* The rule of Enforce_Carbon_Cap and of its NOx, SO2 and CH4 counterparts:
\* Constraint.Skip (no constraint) for an infinite cap, otherwise
\* AnnualEmissions * coef <= upper, coef and upper being fractions.
CapRule(gas, cap) ==
    IF cap = Inf THEN <<>>
    ELSE <<[coef |-> ScalingFactor(gas),
            upper |-> <<cap.v * ScalingFactor(gas)[1], ScalingFactor(gas)[2]>>]>>

\* define_components on the loaded data: the cap constraints of every gas and
\* period, and EmissionsCosts of every period.
DefineComponents ==
    /\ cli.prog = "policy"
    /\ cli.pc = "loaded"
    /\ cli' = [cli EXCEPT
                 !.pc = "defined",
                 !.constraints =
                     [k \in Gases \X Periods |->
                        CapRule(k[1], ParamValue(cli.caps[k[1]], k[2], Inf))],
                 !.EmissionsCosts =
                     [p \in Periods |->
                        AnnualEmissions("co2", p) * ParamValue(cli.costs["co2"], p, 0)
                        + AnnualEmissions("nox", p) * ParamValue(cli.costs["nox"], p, 0)
                        + AnnualEmissions("so2", p) * ParamValue(cli.costs["so2"], p, 0)
                        + AnnualEmissions("ch4", p) * ParamValue(cli.costs["ch4"], p, 0)]]
    /\ UNCHANGED besideCli

\* load_inputs: carbon_policies.csv gives a cap and a cost for some periods
\* and gases.  The rules of the gases do not depend on each other: the file
\* has data for co2 and for one more gas.
PolicyInit ==
    /\ CliIdle
    /\ \E other \in Gases \ {"co2"} :
       \E cd1, cd2, kd1, kd2 \in SUBSET Periods :
       \E c1 \in [cd1 -> CapValues], c2 \in [cd2 -> CapValues],
          k1 \in [kd1 -> CostValues], k2 \in [kd2 -> CostValues] :
          cli = [prog |-> "policy", pc |-> "loaded",
                 caps |-> [g \in Gases |->
                             IF g = "co2" THEN c1 ELSE IF g = other THEN c2 ELSE <<>>],
                 costs |-> [g \in Gases |->
                             IF g = "co2" THEN k1 ELSE IF g = other THEN k2 ELSE <<>>],
                 constraints |-> <<>>, EmissionsCosts |-> <<>>]

PolicyNext == DefineComponents

PolicySpec == PolicyInit /\ [][PolicyNext]_vars

-----------------------------------------------------------------------------
(* Properties *)

\* The state right after _warm_start has run to its end on a continuous program.
Restored == phase = "WARMSTARTED" /\ ~sess.mip

Events(op) == {i \in DOMAIN log : log[i].op = op}

\* The value the pickled store p holds for a name, decoded by its class.
BundleValue(p, name) ==
    LET i == CHOOSE j \in DOMAIN p.names : p.names[j] = name
    IN  Decode(p.cls, p.vals[i])

Absent(names, p) == {n \in Range(names) : n \notin Range(p.names)}

InDomain(use, raw, codes) == use => raw \in codes

RoundTrips(pairs, store, use, codes) ==
    \A i \in DOMAIN pairs :
        InDomain(use, pairs[i].raw, codes) =>
            LET r == GetComponent(store, pairs[i].name)
            IN  r.err = "none" /\ r.val = pairs[i].raw

RawOf(pairs, name) == pairs[CHOOSE i \in DOMAIN pairs : pairs[i].name = name].raw

\* C1: round trip.  Whatever a capture read from the session in the domain of
\* the state kind, the pickled file, once loaded, returns for the same name:
\* for every captured variable and constraint, and in every lookup that a later
\* _warm_start makes and that hits.
C1_RoundTrip ==
    file.exists =>
        LET data == Load(file)
        IN  /\ captured.done
            /\ data.use_c_v_basis = captured.use
            /\ RoundTrips(captured.vars, data.var_data, captured.use, VBasisCodes)
            /\ RoundTrips(captured.cons, data.const_data, captured.use, CBasisCodes)
            /\ Restored =>
                 \A i \in Events("hit") :
                    LET e == log[i]
                        pairs == IF e.what = "var_data" THEN captured.vars ELSE captured.cons
                        codes == IF e.what = "var_data" THEN VBasisCodes ELSE CBasisCodes
                    IN  InDomain(captured.use, RawOf(pairs, e.name), codes)
                          => e.val = RawOf(pairs, e.name)

\* A basis capture of AT_UPPER_BOUND and NONBASIC was pickled and a later
\* _warm_start looked both up.
C1_Witness ==
    /\ Restored /\ file.exists /\ captured.use
    /\ \E i \in DOMAIN captured.vars : captured.vars[i].raw = -2
    /\ \E i \in Events("hit") : log[i].what = "var_data" /\ log[i].val = -2
    /\ \E i \in Events("hit") : log[i].what = "const_data" /\ log[i].val = -1

\* C2: partial match.  After _warm_start on a continuous program every session
\* variable and constraint found in the bundle holds the bundle's decoded value,
\* every other one holds the default 0, and error_count is the number of
\* session names the bundle lacks.
C2_PartialMatch ==
    Restored =>
        LET basis == file.use_c_v_basis
            va == IF basis THEN sess.VBasis ELSE sess.PStart
            ca == IF basis THEN sess.CBasis ELSE sess.DStart
        IN  /\ \A n \in Range(sess.vars) :
                 /\ n \in DOMAIN va
                 /\ va[n] = IF n \in Range(file.var_data.names)
                              THEN BundleValue(file.var_data, n) ELSE 0
            /\ \A n \in Range(sess.cons) :
                 /\ n \in DOMAIN ca
                 /\ ca[n] = IF n \in Range(file.const_data.names)
                              THEN BundleValue(file.const_data, n) ELSE 0
            /\ errCount = Cardinality(Absent(sess.vars, file.var_data))
                          + Cardinality(Absent(sess.cons, file.const_data))

\* One variable was found with AT_UPPER_BOUND, another was missing.
C2_Witness ==
    /\ Restored /\ file.use_c_v_basis
    /\ \E n \in Range(sess.vars) :
          n \in Range(file.var_data.names) /\ n \in DOMAIN sess.VBasis /\ sess.VBasis[n] = -2
    /\ Absent(sess.vars, file.var_data) # {}
    /\ errCount >= 1

\* A _warm_start was asked for on a discrete program with a basis bundle on file.
DiscreteBasisRestore ==
    /\ phase \in {"WARMSTARTED", "FAILED"}
    /\ sess.mip
    /\ cfg.read # None /\ file.exists /\ file.use_c_v_basis

C4_AggregatedWarning ==
    Restored =>
        LET misses == Cardinality(Absent(sess.vars, file.var_data))
                      + Cardinality(Absent(sess.cons, file.const_data))
            names == Len(sess.vars) + Len(sess.cons)
        IN  /\ err = "none"
            /\ Cardinality(Events("miss")) = misses
            /\ Cardinality(Events("hit")) + Cardinality(Events("miss")) = names
            /\ Cardinality(Events("set")) = names
            /\ Cardinality(Events("warn")) = (IF misses > 0 THEN 1 ELSE 0)
            /\ \A i \in Events("warn") :
                 /\ i = Len(log)
                 /\ i = 2 * names + 1
                 /\ log[i].val + 1 = misses
                 /\ log[i].name \in Absent(sess.vars, file.var_data)
                                    \cup Absent(sess.cons, file.const_data)

\* Every name of the session was missing, variables and constraint alike.
C4_Witness ==
    /\ Restored
    /\ Len(sess.vars) = 2 /\ Len(sess.cons) = 1
    /\ Cardinality(Events("miss")) = 3
    /\ Cardinality(Events("warn")) = 1

\* C5: names only the bundle has.  _warm_start looks up and sets session names
\* only, so a bundle name no session component carries is never looked up, has
\* no attribute set, and adds neither a miss nor a warning.
C5_ExtraNamesIgnored ==
    Restored =>
        /\ \A i \in DOMAIN log :
              log[i].op \in {"hit", "miss", "set"} =>
                 log[i].name \in (IF log[i].what \in {"var_data", "VBasis", "PStart"}
                                    THEN Range(sess.vars) ELSE Range(sess.cons))
        /\ DOMAIN sess.VBasis \subseteq Range(sess.vars)
        /\ DOMAIN sess.PStart \subseteq Range(sess.vars)
        /\ DOMAIN sess.CBasis \subseteq Range(sess.cons)
        /\ DOMAIN sess.DStart \subseteq Range(sess.cons)
        /\ (Absent(sess.vars, file.var_data) = {} /\ Absent(sess.cons, file.const_data) = {})
              => errCount = 0 /\ Events("warn") = {} /\ err = "none"

\* The bundle holds a variable and a constraint the session lacks, and every
\* session name was found.
C5_Witness ==
    /\ Restored
    /\ sess.vars # <<>>
    /\ \E n \in Range(file.var_data.names) : n \notin Range(sess.vars)
    /\ \E n \in Range(file.const_data.names) : n \notin Range(sess.cons)
    /\ Absent(sess.vars, file.var_data) = {}
    /\ errCount = 0

\* The names save_component stored exactly once, and that the name list holds
\* exactly once.
StoredOnce(name) ==
    /\ Cardinality({i \in DOMAIN stHist : stHist[i].name = name}) = 1
    /\ Cardinality({i \in DOMAIN st.names : st.names[i] = name}) = 1

\* C6: variable codec.  In a VBasis store each of the four codes is held as one
\* unsigned byte, different codes as different bytes, and get_component gives
\* the code back for a name stored once, the stores having come before the
\* lookups.
C6_VarCodecBijection ==
    st.cls = "VBasis" =>
        /\ \A i \in DOMAIN stHist :
              stHist[i].raw \in VBasisCodes =>
                 /\ st.vals[i] \in 0..255
                 /\ \A j \in DOMAIN stHist :
                       (stHist[j].raw \in VBasisCodes /\ stHist[j].raw # stHist[i].raw)
                          => st.vals[j] # st.vals[i]
        /\ (stLast.op = "get" /\ stLast.err = "none" /\ ~stLate /\ StoredOnce(stLast.name)
               /\ RawOf(stHist, stLast.name) \in VBasisCodes)
              => stLast.res = RawOf(stHist, stLast.name)

\* SUPERBASIC was stored and read back.
C6_Witness ==
    /\ st.cls = "VBasis"
    /\ stLast.op = "get" /\ stLast.err = "none" /\ ~stLate /\ StoredOnce(stLast.name)
    /\ RawOf(stHist, stLast.name) = -3
    /\ stLast.res = -3

\* C7: constraint codec.  In a CBasis store BASIC is held as false and NONBASIC
\* as true, and get_component gives the code back.
C7_ConCodecBijection ==
    st.cls = "CBasis" =>
        /\ \A i \in DOMAIN stHist :
              stHist[i].raw \in CBasisCodes => st.vals[i] = (stHist[i].raw = -1)
        /\ (stLast.op = "get" /\ stLast.err = "none" /\ StoredOnce(stLast.name)
               /\ RawOf(stHist, stLast.name) \in CBasisCodes)
              => stLast.res = RawOf(stHist, stLast.name)

\* NONBASIC was stored and read back.
C7_Witness ==
    /\ st.cls = "CBasis"
    /\ stLast.op = "get" /\ stLast.err = "none" /\ StoredOnce(stLast.name)
    /\ RawOf(stHist, stLast.name) = -1
    /\ stLast.res = -1

\* A _save_warm_start in basis mode has run to its end and pickled the bundle.
BasisCaptureDone == phase = "DONE" /\ cfg.write # None /\ cfg.save

\* C8 as claimed: a basis capture that meets a variable code outside
\* {0,-1,-2,-3} aborts, so a capture that ran to its end met none and the file
\* never holds a byte that decodes to anything else.
C8_Claimed ==
    /\ BasisCaptureDone => \A n \in Range(sess.vars) : sess.VBasis[n] \in VBasisCodes
    /\ (file.exists /\ file.use_c_v_basis) =>
          \A i \in DOMAIN file.var_data.vals :
             VBasisDecode(file.var_data.vals[i]) \in VBasisCodes

\* C9 as claimed: a basis capture that meets a constraint code outside {0,-1}
\* aborts, so no code but NONBASIC is ever pickled as true.
C9_Claimed ==
    /\ BasisCaptureDone => \A n \in Range(sess.cons) : sess.CBasis[n] \in CBasisCodes
    /\ (file.exists /\ captured.use) =>
          \A i \in DOMAIN captured.cons :
             file.const_data.vals[i] => captured.cons[i].raw = -1

\* C10 as claimed: once get_component has been called on a store, every
\* save_component on it fails and leaves names and values as they were.
C10_Claimed ==
    (stLast.op = "save" /\ stLast.frozen) => (stLast.err # "none" /\ ~stLast.changed)

\* The names of the successful save_component calls, in call order.
AppendedNames == [i \in DOMAIN stHist |-> stHist[i].name]

\* C11 as claimed: get_component succeeds for exactly the names that were
\* appended; any other name, "" included, gets KeyError.
C11_Claimed ==
    stLast.op = "get" => (stLast.err = "none" <=> stLast.name \in Range(AppendedNames))

\* C12 as claimed: on a store no get_component has been called on, no
\* save_component fails for lack of room, however many went before.
C12_Claimed ==
    (stLast.op = "save" /\ ~stLast.frozen) => stLast.err # "IndexError"

\* The step is a method call on the store that leaves the same object in place
\* (a successful StPickle puts the unpickled copy in its place).
SameObjectStep == ~(stLast'.op = "pickle" /\ stLast'.err = "none")

\* C13: freeze stability.  _dict is not built by save_component, is built by
\* the first get_component, and from then on no call on the store changes it;
\* every later get_component answers from it alone.
C13_FreezeStability ==
    [][/\ (~st.built /\ stLast'.op = "save") => ~st'.built
       /\ stLast'.op = "get" => st'.built
       /\ (st.built /\ SameObjectStep) => (st'.built /\ st'.dict = st.dict)
       /\ (st.built /\ stLast'.op = "get") =>
             IF stLast'.name \in DOMAIN st.dict
               THEN stLast'.err = "none" /\ stLast'.res = Decode(st.cls, st.dict[stLast'.name])
               ELSE stLast'.err = "KeyError"]_vars

\* A lookup that came after a late save_component: the index is not what the
\* names and values would give now, and the lookup still answered from it.
C13_Witness ==
    /\ stLast.op = "get" /\ stLast.frozen /\ stLate
    /\ st.built /\ st.dict # GetDict(st)
    /\ stLast.err = "KeyError" /\ stLast.name \in Range(st.names)

\* C14 as claimed: pickling a store works in every state of it, one loaded
\* from a pickle included, and what crosses the pickle is exactly the appended
\* names, in order, with one value each.
C14_Claimed ==
    stLast.op = "pickle" =>
        /\ stLast.err = "none"
        /\ st.names = AppendedNames
        /\ Len(st.vals) = Len(stHist)

\* C15: capture idempotence.  The _save_warm_start step leaves every session
\* attribute as it was, and a _save_warm_start run again on the session it
\* leaves, with the same save_c_v_basis, can only produce the file just written:
\* same flag, same names and same values in both stores.
C15_CaptureIdempotent ==
    [][(phase = "SOLVED" /\ cfg.write # None /\ phase' = "DONE") =>
          /\ sess' = sess
          /\ \A o \in SaveWarmStart(sess', cfg'.save, file', captured') :
                o.err = "none" /\ o.file = file' /\ o.captured = captured']_vars

\* A capture of a session with variables and constraints has been written, in
\* basis mode, and capturing again would write the same.
C15_Witness ==
    /\ phase = "DONE" /\ cfg.write # None /\ cfg.save
    /\ sess.vars # <<>> /\ sess.cons # <<>>
    /\ file.exists /\ file.var_data.names = sess.vars
    /\ \A o \in SaveWarmStart(sess, cfg.save, file, captured) : o.file = file

\* The order of one solve() call: options popped, then _warm_start if asked
\* for, then optimize(), then _postsolve with or without _save_warm_start.
PhaseOrder ==
    { <<"IDLE", "WARMSTART">>, <<"IDLE", "READY">>,
      <<"WARMSTART", "WARMSTARTED">>, <<"WARMSTART", "FAILED">>,
      <<"WARMSTARTED", "SOLVED">>, <<"READY", "SOLVED">>,
      <<"SOLVED", "DONE">>, <<"SOLVED", "FAILED">>,
      <<"DONE", "IDLE">>, <<"FAILED", "IDLE">> }

\* What the record of the current solve() call may look like.
LogOrder ==
    LET opt == Events("optimize")
    IN  /\ Cardinality(opt) <= 1
        /\ phase \in {"SOLVED", "DONE"} => Cardinality(opt) = 1
        /\ phase \in {"IDLE", "READY", "WARMSTART", "WARMSTARTED"} => opt = {}
        /\ Cardinality(Events("dump")) <= 1
        /\ Cardinality(Events("warn")) <= 1
        /\ \A i \in Events("set"), j \in Events("set") :
              (log[i].what = log[j].what /\ log[i].name = log[j].name) => i = j
        /\ \A i \in DOMAIN log :
              log[i].op \in {"hit", "miss", "set", "warn"} => \A j \in opt : i < j
        /\ \A i \in Events("dump") : opt # {} /\ \A j \in opt : j < i

FailedInRestore == phase = "FAILED" /\ Events("optimize") = {}

C18_CaptureOnPath ==
    /\ [](/\ phase = "DONE" => (Events("dump") # {} <=> cfg.write # None)
          /\ Events("dump") # {} => (file.exists /\ ~file.corrupt /\ captured.done))
    /\ [][/\ (file' # file \/ captured' # captured \/ Events("dump")' # Events("dump")) =>
                (phase = "SOLVED" /\ cfg.write # None /\ Events("optimize") # {})
             \/ (phase' = "IDLE" /\ file' = file /\ captured' = captured)
          /\ (phase = "SOLVED" /\ cfg.write # None /\ phase' = "DONE") =>
                /\ file' \in {o.file : o \in SaveWarmStart(sess, cfg.save, file, captured)}
                /\ file'.var_data.names = sess.vars
                /\ file'.const_data.names = sess.cons
          /\ (phase = "SOLVED" /\ cfg.write = None) =>
                (phase' = "DONE" /\ file' = file /\ captured' = captured)]_vars

\* A solve() without read_warm_start and with write_warm_start has ended: the
\* file holds the bundle of its session.
C18_Witness ==
    /\ phase = "DONE" /\ cfg.write # None /\ cfg.read = None
    /\ Events("dump") # {}
    /\ sess.vars # <<>> /\ file.var_data.names = sess.vars

\* The file at read_warm_start cannot be opened or cannot be unpickled.
Unreadable == ~file.exists \/ file.corrupt

C20_Claimed ==
    Restored =>
        /\ Len(file.var_data.names) = Len(file.var_data.vals)
        /\ Len(file.const_data.names) = Len(file.const_data.vals)

\* C21 as claimed: whenever _warm_start ends with an exception, every
\* attribute of the session has the value it had when _warm_start began.
C21_Claimed ==
    [][(phase = "WARMSTART" /\ phase' = "FAILED") => sess' = sess]_vars

\* The "set" events of a record of calls, in order.
SetEvents(l) == SelectSeq(l, LAMBDA e : e.op = "set")

\* C22: bundle immutability.  A _warm_start that runs to its end leaves the
\* file as it was and the loaded object with the flag, the names and the values
\* it was loaded with; restoring again from that same object, into the session
\* as it was or as the first restore left it, sets the same values.
C22_BundleImmutable ==
    [][(phase = "WARMSTART" /\ ~sess.mip /\ phase' = "WARMSTARTED") =>
          LET b == Load(file)
              r == ApplyWarmStart(sess, b)
              again == ApplyWarmStart(sess', r.data)
              anew == ApplyWarmStart(sess, r.data)
          IN  /\ file' = file
              /\ r.data.use_c_v_basis = b.use_c_v_basis
              /\ Entries(r.data.var_data) = Entries(b.var_data)
              /\ Entries(r.data.const_data) = Entries(b.const_data)
              /\ again.err = "none" /\ again.sess = sess'
              /\ SetEvents(again.log) = SetEvents(log')
              /\ anew.sess = sess'
              /\ Entries(again.data.var_data) = Entries(b.var_data)
              /\ Entries(again.data.const_data) = Entries(b.const_data)]_vars

\* A restore with a hit of a value that is not the default and with a miss has
\* ended; the loaded object has its index built.
C22_Witness ==
    /\ Restored
    /\ \E i \in Events("hit") : log[i].val # 0
    /\ Events("miss") # {}
    /\ ApplyWarmStart(sess, Load(file)).data.var_data.built
    /\ ApplyWarmStart(sess, Load(file)).sess = sess

\* The step is a _save_warm_start that ran to its end.
CaptureStep == phase = "SOLVED" /\ cfg.write # None /\ phase' = "DONE"

\* C23: capture mode selection.  save_c_v_basis left out counts as false; the
\* pickle carries the flag of the solve; with the flag true the stores are a
\* VBasis and a CBasis filled from the VBasis and CBasis attributes (every code
\* of the codec's domain decodes to itself), with the flag false both are float
\* stores holding X and Pi.
C23_CaptureMode ==
    /\ []("save_c_v_basis" \notin cfg.given => ~cfg.save)
    /\ [][CaptureStep =>
            /\ file'.use_c_v_basis = cfg.save
            /\ file'.var_data.cls = (IF cfg.save THEN "VBasis" ELSE "PicklableData")
            /\ file'.const_data.cls = (IF cfg.save THEN "CBasis" ELSE "PicklableData")
            /\ captured'.use = cfg.save
            /\ captured'.vars = RawPairs(sess.vars, IF cfg.save THEN sess.VBasis ELSE sess.X)
            /\ captured'.cons = RawPairs(sess.cons, IF cfg.save THEN sess.CBasis ELSE sess.Pi)
            /\ \A i \in DOMAIN sess.vars :
                  IF cfg.save
                    THEN sess.VBasis[sess.vars[i]] \in VBasisCodes =>
                            VBasisDecode(file'.var_data.vals[i]) = sess.VBasis[sess.vars[i]]
                    ELSE file'.var_data.vals[i] = sess.X[sess.vars[i]]
            /\ \A i \in DOMAIN sess.cons :
                  IF cfg.save
                    THEN sess.CBasis[sess.cons[i]] \in CBasisCodes =>
                            CBasisDecode(file'.const_data.vals[i]) = sess.CBasis[sess.cons[i]]
                    ELSE file'.const_data.vals[i] = sess.Pi[sess.cons[i]]]_vars

\* A solve() that left save_c_v_basis out has pickled primal and dual values.
C23_Witness ==
    /\ phase = "DONE" /\ Events("dump") # {}
    /\ "save_c_v_basis" \notin cfg.given
    /\ sess.vars # <<>> /\ sess.cons # <<>>
    /\ ~file.use_c_v_basis /\ file.var_data.cls = "PicklableData"
    /\ \E i \in DOMAIN sess.vars : file.var_data.vals[i] = sess.X[sess.vars[i]]
                                     /\ file.var_data.vals[i] # sess.VBasis[sess.vars[i]]

\* C24: capture completeness.  The pickle of a _save_warm_start holds the
\* session's variable names in the session's order with one value each, and
\* likewise its constraint names; every allocated slot was filled, so
\* __getstate__ gave no "pickling more data than necessary" warning.
C24_CaptureComplete ==
    /\ [](Events("picklewarn") = {})
    /\ [][CaptureStep =>
            /\ file'.var_data.names = sess.vars
            /\ Len(file'.var_data.vals) = Len(sess.vars)
            /\ file'.const_data.names = sess.cons
            /\ Len(file'.const_data.vals) = Len(sess.cons)
            /\ \A o \in SaveWarmStart(sess, cfg.save, file, captured) :
                  o.err = "none" /\ ~o.warned]_vars

\* A capture of two variables and a constraint has ended.
C24_Witness ==
    /\ phase = "DONE" /\ Events("dump") # {}
    /\ Len(sess.vars) = 2 /\ Len(sess.cons) = 1
    /\ file.var_data.names = sess.vars /\ file.const_data.names = sess.cons

\* C25 as claimed: once the index of a store is built it is the mapping that
\* the names and values of the store denote, whatever calls came before.
C25_Claimed ==
    st.built => st.dict = GetDict(st)

\* C26: restore kind follows the bundle.  With the flag of the pickle true a
\* restore sets VBasis of the variables and CBasis of the constraints, using
\* VBASIS_DEFAULT and CBASIS_DEFAULT on a miss, and leaves PStart and DStart
\* alone; with it false it sets PStart and DStart, using 0 on a miss, and
\* leaves VBasis and CBasis alone; the save_c_v_basis of the solve plays no part.
C26_KindFollowsBundle ==
    Restored =>
        LET basis == file.use_c_v_basis
            var_attr == IF basis THEN "VBasis" ELSE "PStart"
            const_attr == IF basis THEN "CBasis" ELSE "DStart"
        IN  /\ \A i \in Events("set") :
                  /\ log[i].name \in Range(sess.vars) => log[i].what = var_attr
                  /\ log[i].name \in Range(sess.cons) => log[i].what = const_attr
                  /\ log[i].what \in {var_attr, const_attr}
            /\ \A i \in Events("miss") :
                  log[i].val = (IF log[i].what = "var_data"
                                  THEN (IF basis THEN VBASIS_DEFAULT ELSE 0)
                                  ELSE (IF basis THEN CBASIS_DEFAULT ELSE 0))
            /\ DOMAIN sess[var_attr] = Range(sess.vars)
            /\ DOMAIN sess[const_attr] = Range(sess.cons)
            /\ IF basis THEN sess.PStart = EmptyMap /\ sess.DStart = EmptyMap
                        ELSE sess.VBasis = EmptyMap /\ sess.CBasis = EmptyMap

\* A solve with save_c_v_basis true has restored a primal/dual pickle, and so
\* set PStart and DStart.
C26_Witness ==
    /\ Restored
    /\ cfg.save /\ ~file.use_c_v_basis
    /\ sess.vars # <<>> /\ sess.cons # <<>>
    /\ DOMAIN sess.PStart = Range(sess.vars) /\ DOMAIN sess.DStart = Range(sess.cons)
    /\ Events("hit") # {}

\* The keywords _presolve pops.
OptionKeys == {"write_warm_start", "read_warm_start", "save_c_v_basis"}

\* C27: per-solve configuration.  The options of a solve are the ones passed
\* to it, an option left out being None, None and false whatever an earlier
\* solve passed; no pickle is written by a solve that passed no
\* write_warm_start and none is restored by a solve that passed no
\* read_warm_start; super()._presolve gets the other keywords and none of the
\* three.
C27_PerSolveOptions ==
    /\ cfg.write = (IF "write_warm_start" \in cfg.given THEN Path ELSE None)
    /\ cfg.read = (IF "read_warm_start" \in cfg.given THEN Path ELSE None)
    /\ "save_c_v_basis" \notin cfg.given => ~cfg.save
    /\ cfg.rest = cfg.given \ OptionKeys
    /\ phase = "DONE" => (Events("dump") # {} <=> "write_warm_start" \in cfg.given)
    /\ Restored => "read_warm_start" \in cfg.given

\* A solve that passed neither path has ended without restoring or writing,
\* after an earlier solve had written the file; "tee" went on to the base class.
C27_Witness ==
    /\ phase = "DONE" /\ file.exists
    /\ cfg.given = {"tee"} /\ cfg.rest = {"tee"}
    /\ Events("dump") = {} /\ Events("set") = {}

\* C28: discrete programs bypass the pickle.  However a solve() of a discrete
\* program that asked for a warm start was configured and whatever lies at the
\* path, its _warm_start ends without error, has looked nothing up, has set no
\* VBasis, CBasis, PStart or DStart, and has handed over to the base class.
C28_DiscreteBypass ==
    (sess.mip /\ phase \in {"WARMSTARTED", "FAILED"} /\ Events("optimize") = {}) =>
        /\ phase = "WARMSTARTED" /\ err = "none"
        /\ sess.Start
        /\ log = <<>> /\ errCount = 0
        /\ sess.VBasis = EmptyMap /\ sess.CBasis = EmptyMap
        /\ sess.PStart = EmptyMap /\ sess.DStart = EmptyMap

\* A discrete program was warm started with a path whose file cannot be unpickled.
C28_Witness ==
    /\ sess.mip /\ phase = "WARMSTARTED"
    /\ cfg.read # None /\ file.corrupt
    /\ sess.vars # <<>> /\ sess.Start

\* C29: after any sequence of registrations, registered_graphs holds each name
\* once, with the wrapper that was registered first under that name; a
\* registration under a name that is already registered raises an exception and
\* leaves the registry unchanged.
C29_RegistryUnique ==
    /\ [](/\ \A i, j \in DOMAIN registered_graphs :
                registered_graphs[i].name = registered_graphs[j].name => i = j
          /\ {registered_graphs[i].name : i \in DOMAIN registered_graphs} = DOMAIN tools.first
          /\ \A i \in DOMAIN registered_graphs :
                registered_graphs[i] = tools.first[registered_graphs[i].name])
    /\ [][(tools'.last # tools.last /\ Registered(registered_graphs, tools'.last.name))
            => (tools'.last.err = "Exception" /\ registered_graphs' = registered_graphs)]_vars

C29_Witness ==
    /\ Len(registered_graphs) = 2
    /\ tools.last.err = "Exception"
    /\ tools.pc = "idle"

\* The scenario indices run_graph_func has to call func with.
ExpectedCalls(t, func) ==
    IF t.num_scenarios > 1 /\ ~func.multi_scenario
      THEN [i \in 1..t.num_scenarios |-> i - 1]
      ELSE <<0>>

\* C30: when run_graph_func returns, the function was called once per scenario,
\* in index order and with that scenario active, if there are several scenarios
\* and the function is not multi-scenario, and once with scenario 0 active
\* otherwise; the active scenario is None and no figure is pending, whether
\* or not an exception of the function was caught.
C30_RunProtocol ==
    /\ [](tools.pc = "idle" =>
            (tools.active_scenario = NoScenario /\ tools.figures = EmptyMap))
    /\ [][(tools.pc = "calls" /\ tools'.pc = "idle") =>
            [i \in DOMAIN tools'.calls |-> tools'.calls[i].scenario]
              = ExpectedCalls(tools, GraphOf(registered_graphs, tools.func))]_vars

C30_Witness ==
    /\ tools.pc = "idle"
    /\ Len(tools.calls) > 1
    /\ tools.calls[1].caught # "none"
    /\ tools.calls[2].ran
    /\ tools.saved # {}

\* The graphs whose body the wrapper must not execute.
MustSkip(t, w) ==
    \/ t.skip_long /\ w.is_long
    \/ w.requires_multi_scenario /\ t.num_scenarios < 2

\* C31: with CATCH_EXCEPTIONS true no exception of a graph function leaves
\* run_graph_func, and graph_scenarios, asked for every graph, returns only
\* after it has run each registered graph, in the order of the registry; the
\* body of a graph that is long while skip_long is set, or that requires
\* several scenarios while fewer than 2 are given, is never executed.
C31_FailureIsolation ==
    /\ (CATCH_EXCEPTIONS /\ tools.runs # <<>>) => tools.pc # "raised"
    /\ (CATCH_EXCEPTIONS /\ tools.pc = "done" /\ tools.figure = None) =>
          tools.runs = [i \in DOMAIN registered_graphs |-> registered_graphs[i].name]
    /\ (tools.func # "" /\ MustSkip(tools, GraphOf(registered_graphs, tools.func))) =>
          \A i \in DOMAIN tools.calls : ~tools.calls[i].ran

C31_Witness ==
    /\ CATCH_EXCEPTIONS
    /\ tools.pc = "done"
    /\ Len(tools.runs) = 2
    /\ tools.runs[1] \in tools.warned
    /\ tools.calls # <<>>
    /\ ~tools.calls[1].ran

IsPrefix(a, b) == Len(a) <= Len(b) /\ \A i \in DOMAIN a : a[i] = b[i]

\* What add_figure under filename would do in the present state.
AddNow(filename) == AddFigure(tools, filename)

\* C32: between two save_figures calls a file name holds at most one figure
\* when multiple figures are not allowed, and a second add_figure under it
\* raises and keeps the first figure; when they are allowed, an add_figure that
\* is accepted puts the figure after those the file name has, so the figures
\* stay in the order added; save_figures writes a file for every pending file
\* name and leaves none pending.
C32_OneFigurePerFile ==
    /\ [](/\ ~tools.allow_multiple_figures =>
                \A f \in DOMAIN tools.figures : Len(tools.figures[f]) = 1
          /\ \A f \in DOMAIN tools.figures :
                /\ ~tools.allow_multiple_figures =>
                      (AddNow(f).err = "Exception" /\ AddNow(f).figures = tools.figures)
                /\ (tools.allow_multiple_figures /\ AddNow(f).err = "none") =>
                      /\ IsPrefix(tools.figures[f], AddNow(f).figures[f])
                      /\ Len(AddNow(f).figures[f]) = Len(tools.figures[f]) + 1
                /\ \A i, j \in DOMAIN tools.figures[f] :
                      i < j => tools.figures[f][i].scenario <= tools.figures[f][j].scenario)
    /\ [][/\ (tools.pc = "calls" /\ tools'.pc # "idle") =>
               \A f \in DOMAIN tools.figures :
                  f \in DOMAIN tools'.figures /\ IsPrefix(tools.figures[f], tools'.figures[f])
          /\ (tools.pc = "calls" /\ tools'.pc = "idle") =>
               /\ {r.file : r \in tools'.saved} = DOMAIN tools.figures
               /\ \A r \in tools'.saved : r.n = Len(tools.figures[r.file])
               /\ tools'.figures = EmptyMap]_vars

C32_Witness ==
    /\ tools.pc = "idle"
    /\ ~tools.allow_multiple_figures
    /\ tools.calls # <<>>
    /\ tools.calls[1].caught = "Exception"
    /\ tools.saved = {[file |-> tools.func, n |-> 1]}

\* What get_dataframe returns for the arguments of the last call when nothing
\* is cached.
Uncached ==
    LET a == tools.df_last
    IN  ForScenario(tools,
            [rows |-> LoadDataframe(tools, PathOf(a.filename, a.folder, a.from_inputs),
                                    a.convert_dot_to_na, 0),
             alias |-> <<>>],
            a.force_one_scenario, a.drop_scenario_info).rows

\* C33: whatever get_dataframe calls came before, and whatever the callers did
\* to the dataframes they were returned, get_dataframe returns what it would
\* return without the cache; in particular "." cells are missing values in the
\* result of a call with convert_dot_to_na=True.
C33_Claimed == tools.df_last.called => tools.df_last.rows = Uncached

\* C34: when get_graphing_folder returns, the folder exists and holds none of
\* the files it held before the call; when the folder exists and the user
\* declines, the call raises and the folder is as before; with more than one
\* scenario and the folder name "graphs" it raises without asking and without
\* touching the folder.
C34_Claimed ==
    /\ cli.prog = "graph" /\ cli.pc = "returned" =>
          (cli.exists /\ cli.files \cap cli.before.files = {})
    /\ cli.prog = "graph" /\ cli.pc = "raised" =>
          (cli.exists = cli.before.exists /\ cli.files = cli.before.files)
    /\ (cli.prog = "graph" /\ cli.pc # "start"
           /\ cli.num_scenarios > 1 /\ cli.graphs_dir = "graphs") =>
          (cli.pc = "raised" /\ ~cli.asked)

Confirmed(prompt) ==
    \E i \in DOMAIN cli.answers : cli.answers[i] = [prompt |-> prompt, answer |-> TRUE]

\* C35: the sampling main inserts nothing unless the user confirmed the
\* configuration-file prompt and, with --overwrite, the overwrite prompt too,
\* and a declined prompt exits with nothing inserted; the insertions come in
\* the order study timeframe, periods, time sample, sampled timeseries and
\* timepoints, each at most once; the period rows passed to the fourth step
\* are those the second step produced.
C35_SamplingOrder ==
    cli.prog = "sampling" =>
      /\ cli.inserted # <<>> =>
            (Confirmed("config") /\ (cli.overwrite => Confirmed("overwrite")))
      /\ cli.pc = "exited" => cli.inserted = <<>>
      /\ IsPrefix(cli.inserted, <<"study_timeframe", "period", "time_sample",
                                  "sampled_timeseries", "sampled_timepoint">>)
      /\ cli.pc \in {"done", "failed"} /\ Len(cli.inserted) >= 3 =>
            cli.passed = PeriodRows(cli.start_year, cli.end_year, cli.period_length)
      /\ cli.pc = "done" => Len(cli.inserted) = 5

C35_Witness ==
    /\ cli.prog = "sampling"
    /\ cli.overwrite
    /\ cli.pc = "done"
    /\ Len(cli.passed) > 1

\* C36: insert_periods produces one row for each start in
\* range(start_year, end_year, period_length), with the ids 1, 2, ... in the
\* order of the starts; a row ends at start + period_length - 1, the next row
\* starts the year after, and the label is the midpoint of start and end
\* rounded to a nearest integer, within [start, end].
C36_PeriodRows ==
    (cli.prog = "sampling" /\ cli.period_values # <<>>) =>
      LET rows == cli.period_values
          starts == {y \in cli.start_year..(cli.end_year - 1) :
                       (y - cli.start_year) % cli.period_length = 0}
      IN  /\ Len(rows) = Cardinality(starts)
          /\ {rows[i].start_year : i \in DOMAIN rows} = starts
          /\ \A i \in DOMAIN rows :
                /\ rows[i].period_id = i
                /\ rows[i].end_year = rows[i].start_year + cli.period_length - 1
                /\ rows[i].length_yrs = cli.period_length
                /\ rows[i].start_year <= rows[i].label
                /\ rows[i].label <= rows[i].end_year
                /\ 2 * rows[i].label - (rows[i].start_year + rows[i].end_year) \in {-1, 0, 1}
                /\ i > 1 => rows[i].start_year = rows[i - 1].end_year + 1

C36_Witness ==
    /\ cli.prog = "sampling"
    /\ Len(cli.period_values) = 2
    /\ cli.period_length = 3
    /\ cli.start_year < 0
    /\ cli.period_values[2].end_year > cli.end_year

\* A level e of emissions satisfies the constraint e * coef <= upper.
Holds(con, e) == e * con.coef[1] * con.upper[2] <= con.upper[1] * con.coef[2]

\* C37: for every period and each of the four gases a cap constraint is
\* generated exactly when the gas has a finite cap for the period; a period
\* without a cap in the data has the default, infinity, and no constraint; a
\* generated CO2 constraint is satisfied by the same emissions as
\* AnnualEmissions[p] <= carbon_cap_tco2_per_yr[p]; a cost that is not given
\* is 0 and adds nothing to EmissionsCosts[p].
C37_EmissionCaps ==
    (cli.prog = "policy" /\ cli.pc = "defined") =>
      \A p \in Periods :
        /\ \A g \in Gases :
             LET given == p \in DOMAIN cli.caps[g]
                 finite == given /\ ~cli.caps[g][p].inf
                 cons == cli.constraints[<<g, p>>]
             IN  /\ Len(cons) = (IF finite THEN 1 ELSE 0)
                 /\ ~given => cons = <<>>
                 /\ finite =>
                      \A e \in -1..60 : Holds(cons[1], e) <=> e <= cli.caps[g][p].v
        /\ LET Term(g) == IF p \in DOMAIN cli.costs[g]
                          THEN AnnualEmissions(g, p) * cli.costs[g][p] ELSE 0
           IN  cli.EmissionsCosts[p] =
                 Term("co2") + Term("nox") + Term("so2") + Term("ch4")

C37_Witness ==
    /\ cli.prog = "policy"
    /\ cli.pc = "defined"
    /\ cli.caps["co2"] = (2030 :> [inf |-> FALSE, v |-> 5])
    /\ cli.constraints[<<"co2", 2030>>] # <<>>
    /\ cli.constraints[<<"co2", 2040>>] = <<>>
    /\ \E g \in Gases \ {"co2"} :
         /\ cli.caps[g] = (2030 :> Inf @@ 2040 :> [inf |-> FALSE, v |-> 0])
         /\ cli.costs[g] = (2040 :> 3)
    /\ cli.costs["co2"] = <<>>
    /\ cli.EmissionsCosts[2030] = 0
    /\ cli.EmissionsCosts[2040] > 0

====
